---- MODULE Spec2Model ----
(***************************************************************************)
(* State-machine model of the audio engine core: RenderClock (Clock.h),    *)
(* RealTimeScheduler (Scheduler.h) and SceneGraph (SceneGraph.h/.cpp).     *)
(***************************************************************************)
EXTENDS Integers, Sequences, FiniteSets, TLC

(* ------------------------------ bounds -------------------------------- *)

\* RealTimeScheduler<MaxEvents>: the template argument (8 in the tests,
\* 128 in SceneGraph), scaled down.
MaxEvents == 2
\* Largest trigger frame handed to schedule / scheduleAutomation.
MaxFrame == 2
\* Number of schedule calls accepted along one behaviour: enough for the
\* ring indices to wrap around and the first slot to be reused.
MaxSched == MaxEvents + 2
\* Number of automations accepted along one behaviour: enough to fill the
\* scheduler's queue.
MaxAuto == MaxEvents
\* Renders / clock advances are taken only while frameTime < MaxTime.
MaxTime == MaxFrame + 1
\* Longest connection list the control plane builds.
MaxConns == 2
\* Steps of a direct RenderClock::advanceBy call.
AdvanceSteps == {1, 2}

(* -------------------------- program constants ------------------------- *)

kMaxChannels == 4
kMaxFrames == 1024

(* ------------------------------ state --------------------------------- *)

VARIABLES
  frameTime,        \* RenderClock::frameTime_
  framesPerBuffer,  \* RenderClock::framesPerBuffer_
  events,           \* RealTimeScheduler::events_   (slot index -> ScheduledEvent)
  writeIndex,       \* RealTimeScheduler::writeIndex_
  readIndex,        \* RealTimeScheduler::readIndex_
  nodes,            \* SceneGraph::nodes_          (id -> address of the owned DSPNode)
  nodeBuffers,      \* SceneGraph::nodeBuffers_    (id -> NodeBuffer)
  connections,      \* SceneGraph::connections_    (sequence of Connection)
  renderOrder,      \* SceneGraph::renderOrder_
  inboundEdges,     \* SceneGraph::inboundEdges_   (destination id -> source ids)
  outputSources,    \* SceneGraph::outputSources_
  nodeState,        \* the DSPNode objects nodes_ owns (id -> members of the node)
  hostInstanceId,   \* PluginNode::hostInstanceId_
  bypassed,         \* PluginNode::bypassed_
  hostUnavailableLogged,  \* PluginNode::hostUnavailableLogged_
  renderFailureLogged,    \* PluginNode::renderFailureLogged_
  sampleRate,       \* DSPNode::sampleRate_ of the plugin node
  gRenderCallback,  \* PluginHost.cpp: gRenderCallback
  gRenderUserData,  \* PluginHost.cpp: gRenderUserData (0: nullptr)
  stale,            \* history: pending events whose captured node was destroyed
  accepted,         \* history: the events schedule() accepted, in order
  consumed,         \* history: number of events the dispatcher has popped
  invoked,          \* history: the callback invocations, in order
  lastOp,           \* history: the last call made, its arguments and outcome
                    \* (n: the number of connections it erased, out: the
                    \* samples of the output view when render returned,
                    \* processed: the nodes whose process() it called,
                    \* input: the samples of the view handed to process,
                    \* requests: the requests the host callback received,
                    \* logged: the error messages written,
                    \* host: what PluginHostBridge::Render returned,
                    \* block: the samples of a one-channel view when
                    \* ClipPlayerNode::process returned,
                    \* name, value, finite: the arguments of setParameter
                    \* and whether the value is a finite number)
  player,           \* a ClipPlayerNode driven directly, as the tests do
  played,           \* ghost: the samples player produced since its parameters
                    \* were last set or its position was last rewound
  origin,           \* ghost: processedFrames_ of player when played was empty
  earlier,          \* ghost: what player produced before the last rewind
  producer,         \* the control thread inside RealTimeScheduler::schedule:
                    \* its position and the locals write, read and event
  consumer,         \* the audio thread inside dispatchDueEvents: its position
                    \* and the locals now, read and write
  registrar,        \* the control thread inside SetRenderCallback: its
                    \* position and the arguments callback and userData
  renderer,         \* the audio thread inside PluginHostBridge::Render: its
                    \* position and the locals callback and userData
  runLogs,          \* ghost: the lines the plugin node logged, by kind, since
                    \* the run of unavailable-host calls and the run of
                    \* failed renders it is in began (counted up to 2)
  bridge            \* AudioEngineBridge: held (mutex_ is locked), graph (graph_
                    \* is not null), xruns (xruns_), control and audio (the
                    \* position of the control thread and of the audio
                    \* thread in a bridge call: "idle", "in" while it owns
                    \* the lock, "xrun" for a render that did not get it),
                    \* out (the samples of the view of that render)

clockVars == <<frameTime, framesPerBuffer>>
schedVars == <<events, writeIndex, readIndex>>
topoVars  == <<renderOrder, inboundEdges, outputSources>>
graphVars == <<nodes, nodeBuffers, connections, topoVars, nodeState>>
histVars  == <<stale, accepted, consumed, invoked, lastOp>>
nodeVars  == <<hostInstanceId, bypassed, hostUnavailableLogged, renderFailureLogged,
               sampleRate, runLogs>>
hostVars  == <<gRenderCallback, gRenderUserData>>
pluginVars == <<nodeVars, hostVars>>
clipVars  == <<player, played, origin, earlier>>
raceVars  == <<producer, consumer, registrar, renderer>>
vars      == <<clockVars, schedVars, graphVars, histVars, pluginVars, clipVars, raceVars,
               bridge>>

\* A function pointer that points to no function.
nullptr == "nullptr"

\* The record of a call: its name, whether it succeeded (returned true, or
\* returned normally) and the message of the exception it threw, if any.
Op(op, ok, err) ==
  [op |-> op, ok |-> ok, err |-> err, channels |-> 0, frames |-> 0, n |-> 0,
   out |-> 0, processed |-> <<>>, input |-> 0, requests |-> <<>>, logged |-> <<>>,
   host |-> [has_value |-> FALSE, success |-> FALSE, pluginBypassed |-> FALSE],
   block |-> <<>>, name |-> "", value |-> 0, finite |-> TRUE]

\* A newly constructed ClipPlayerNode: the members process() reads, with a
\* one-channel clip held as the sequence of its samples.
ClipPlayerNode ==
  [clipBuffer |-> <<>>, startFrame |-> 0, endFrame |-> 0, fadeInFrames |-> 0,
   fadeOutFrames |-> 0, gain |-> 1, processedFrames |-> 0, sampleRate |-> 48000]

(* --------------------------- RealTimeScheduler ------------------------ *)

\* capacity_ = MaxEvents + 1 ring slots
capacity == MaxEvents + 1

\* A default-constructed std::function (no callback) and ScheduledEvent.
NoCallback == [set |-> FALSE, id |-> 0, node |-> 0, value |-> 0]
DefaultEvent == [frame |-> 0, callback |-> NoCallback]

\* What a callback invocation reaches: a plain closure, the live node it
\* captured, or, when that node was destroyed after scheduling, the dangling
\* address (freed memory, or another node the allocator placed there).
Target(callback) ==
  IF callback.node = 0 THEN "closure"
  ELSE IF callback.id \notin stale THEN "node"
  ELSE IF \E id \in DOMAIN nodes : nodes[id] = callback.node THEN "reused"
  ELSE "freed"

increment(value) == (value + 1) % capacity

\* schedule(): the queue-full test "next == read"
IsFullNever(next, read) == FALSE
IsFull(next, read) == next = read

\* dispatchDueEvents(): the slot peeked at, "events_[read]"
eventAtNext(read) == events[increment(read)]
eventAt(read) == events[read]

\* dispatchDueEvents(): the break test "event.frame > now"
NotYetDueReversed(event, now) == event.frame < now
NotYetDueInclusive(event, now) == event.frame >= now
NotYetDue(event, now) == event.frame > now

\* The slots holding accepted, not yet popped events, oldest first.
RECURSIVE PendingFrom(_)
PendingFrom(read) ==
  IF read = writeIndex THEN <<>>
  ELSE <<events[read]>> \o PendingFrom(increment(read))
Pending == PendingFrom(readIndex)

\* The loop of dispatchDueEvents() from loop state st = [read, calls, count];
\* calls are the callbacks invoked so far in this call, count the pops.
RECURSIVE DispatchLoop(_, _)
DispatchLoop(st, now) ==
  IF st.read = writeIndex THEN st
  ELSE LET event == eventAt(st.read) IN
       IF NotYetDue(event, now) THEN st
       ELSE DispatchLoop(
              [read  |-> increment(st.read),
               calls |-> IF event.callback.set
                         THEN Append(st.calls, [id    |-> event.callback.id,
                                                frame |-> event.frame,
                                                now   |-> now,
                                                node  |-> event.callback.node,
                                                value |-> event.callback.value,
                                                target |-> Target(event.callback)])
                         ELSE st.calls,
               count |-> st.count + 1], now)

\* bool RealTimeScheduler::schedule(const ScheduledEvent&): the new scheduler
\* state and the return value.
schedule(event) ==
  LET write == writeIndex
      read  == readIndex
      next  == increment(write)
  IN IF IsFull(next, read)
     THEN [ok |-> FALSE, events |-> events, writeIndex |-> writeIndex]
     ELSE [ok |-> TRUE,
           events |-> [events EXCEPT ![write] = event],
           writeIndex |-> next]

\* void RealTimeScheduler::dispatchDueEvents()
dispatchDueEvents ==
  DispatchLoop([read |-> readIndex, calls |-> <<>>, count |-> 0], frameTime)

(* ------------------ direct use of scheduler and clock ----------------- *)

\* scheduler.schedule({frame, callback}) as the scheduler tests call it;
\* hasCb = FALSE passes an event whose std::function is empty.
Schedule(frame, hasCb) ==
  /\ Len(accepted) < MaxSched
  /\ LET id == Len(accepted) + 1
         cb == IF hasCb THEN [set |-> TRUE, id |-> id, node |-> 0, value |-> 0] ELSE NoCallback
         r  == schedule([frame |-> frame, callback |-> cb])
     IN /\ events' = r.events
        /\ writeIndex' = r.writeIndex
        /\ accepted' = IF r.ok THEN Append(accepted, [frame |-> frame, set |-> hasCb])
                       ELSE accepted
        /\ lastOp' = Op("schedule", r.ok, "")
  /\ UNCHANGED <<bridge, raceVars, clipVars, pluginVars, readIndex, clockVars, graphVars, stale, consumed, invoked>>

\* scheduler.dispatchDueEvents()
Dispatch ==
  /\ LET r == dispatchDueEvents
     IN /\ readIndex' = r.read
        /\ invoked' = invoked \o r.calls
        /\ consumed' = consumed + r.count
        /\ lastOp' = Op("dispatch", TRUE, "")
  /\ UNCHANGED <<bridge, raceVars, clipVars, pluginVars, events, writeIndex, clockVars, graphVars, stale, accepted>>

\* clock.advanceBy(frames)
AdvanceBy(frames) ==
  /\ frameTime < MaxTime
  /\ frameTime' = frameTime + frames
  /\ lastOp' = [Op("advanceBy", TRUE, "") EXCEPT !.frames = frames]
  /\ UNCHANGED <<bridge, raceVars, clipVars, pluginVars, framesPerBuffer, schedVars, graphVars, stale, accepted, consumed, invoked>>

\* State after construction: RenderClock(sampleRate, framesPerBuffer),
\* RealTimeScheduler(clock), an empty SceneGraph, a
\* PluginNode("host-instance", capabilities) and no host callback registered.
Init ==
  /\ frameTime = 0
  /\ framesPerBuffer = 1
  /\ events = [i \in 0..(capacity - 1) |-> DefaultEvent]
  /\ writeIndex = 0
  /\ readIndex = 0
  /\ nodes = [x \in {} |-> 0]
  /\ nodeBuffers = [x \in {} |-> 0]
  /\ connections = <<>>
  /\ renderOrder = <<>>
  /\ inboundEdges = [x \in {} |-> 0]
  /\ outputSources = <<>>
  /\ nodeState = [x \in {} |-> 0]
  /\ hostInstanceId = "host-instance"
  /\ bypassed = FALSE
  /\ hostUnavailableLogged = FALSE
  /\ renderFailureLogged = FALSE
  /\ sampleRate = 48000
  /\ gRenderCallback = nullptr
  /\ gRenderUserData = 0
  /\ player = ClipPlayerNode
  /\ played = <<>>
  /\ origin = 0
  /\ earlier = <<>>
  /\ producer = [pc |-> "idle", write |-> 0, read |-> 0, event |-> DefaultEvent]
  /\ consumer = [pc |-> "idle", now |-> 0, read |-> 0, write |-> 0]
  /\ registrar = [pc |-> "idle", callback |-> nullptr, userData |-> 0]
  /\ renderer = [pc |-> "idle", callback |-> nullptr, userData |-> 0]
  /\ runLogs = [unavailable |-> 0, failure |-> 0]
  /\ bridge = [held |-> FALSE, graph |-> FALSE, xruns |-> 0,
               control |-> "idle", audio |-> "idle", out |-> 0]
  /\ stale = {}
  /\ accepted = <<>>
  /\ consumed = 0
  /\ invoked = <<>>
  /\ lastOp = Op("init", TRUE, "")

NextSched ==
  \/ \E frame \in 0..MaxFrame : Schedule(frame, TRUE)
  \/ Schedule(DefaultEvent.frame, FALSE)   \* schedule(ScheduledEvent{})
  \/ Dispatch
  \/ \E frames \in AdvanceSteps : AdvanceBy(frames)

SpecSched == Init /\ [][NextSched]_vars

(* ------------------------------ SceneGraph ---------------------------- *)

\* SceneGraph::kOutputBusId
kOutputBusId == "__output__"

\* An empty std::unordered_map
EmptyMap == [x \in {} |-> 0]

Range(f) == {f[x] : x \in DOMAIN f}

Min(a, b) == IF a <= b THEN a ELSE b
Max(a, b) == IF a >= b THEN a ELSE b

\* The orders in which an unordered container holding the keys S may be
\* iterated: every arrangement of S.
Perms(S) ==
  {p \in [1..Cardinality(S) -> S] :
     \A i, j \in 1..Cardinality(S) : i # j => p[i] # p[j]}

\* A default-constructed NodeBuffer (StackAudioBuffer with frameCount_ 0,
\* no channel pointer set, zero-initialised samples); sample is the value
\* the samples of the buffer's current view hold.
DefaultNodeBuffer == [frameCount |-> 0, channelCount |-> 0, sample |-> 0]

\* removeNode(): the remove_if predicate
IncidentSourceOnly(conn, id) == conn.source = id
Incident(conn, id) == conn.source = id \/ conn.destination = id

\* connect() / disconnect(): the find_if / remove_if predicate
SamePairSourceOnly(conn, source, destination) == conn.source = source
SamePair(conn, source, destination) ==
  conn.source = source /\ conn.destination = destination

\* rebuildTopology(): "connection.destination == kOutputBusId"
IsOutputBus(destination) == destination = kOutputBusId

\* rebuildTopology(): "degIt->second == 0U" after the decrement
ReachedZeroAlways(degree) == TRUE
ReachedZero(degree) == degree = 0

\* rebuildTopology(): "!adjacency.count(id)" in the fallback loop
IsSinkAlways(id, adjacency) == TRUE
IsSink(id, adjacency) == id \notin DOMAIN adjacency

\* rebuildTopology(): the connections that pass the loop's filters and are
\* node-to-node edges, in connection order.
NodeEdges(N, conns) ==
  LET Keep(c) == /\ c.source \in N
                 /\ ~IsOutputBus(c.destination)
                 /\ c.destination \in N
  IN SelectSeq(conns, Keep)

\* rebuildTopology(): sourcesFeedingOutput
SourcesFeedingOutput(N, conns) ==
  {conns[i].source : i \in {k \in DOMAIN conns :
       conns[k].source \in N /\ IsOutputBus(conns[k].destination)}}

RECURSIVE MapSeq(_, _)
\* The field f ("source" or "destination") of every element of seq.
MapSeq(seq, f) ==
  IF seq = <<>> THEN <<>> ELSE <<Head(seq)[f]>> \o MapSeq(Tail(seq), f)

\* rebuildTopology(): adjacency (source -> destinations in connection order)
Adjacency(N, conns) ==
  LET edges == NodeEdges(N, conns)
  IN [s \in {edges[i].source : i \in DOMAIN edges} |->
        LET From(c) == c.source = s IN MapSeq(SelectSeq(edges, From), "destination")]

\* rebuildTopology(): inboundEdges_ (destination -> sources in connection order)
InboundKeyedBySource(N, conns) == Adjacency(N, conns)
Inbound(N, conns) ==
  LET edges == NodeEdges(N, conns)
  IN [d \in {edges[i].destination : i \in DOMAIN edges} |->
        LET To(c) == c.destination = d IN MapSeq(SelectSeq(edges, To), "source")]

\* rebuildTopology(): indegree after the connection loop
Indegree(N, conns) ==
  LET edges == NodeEdges(N, conns)
  IN [id \in N |-> Cardinality({i \in DOMAIN edges : edges[i].destination = id})]

RECURSIVE Relax(_, _, _)
\* rebuildTopology(): the loop over adjacency[current]
Relax(dests, indegree, queue) ==
  IF dests = <<>> THEN [indegree |-> indegree, queue |-> queue]
  ELSE LET dest == Head(dests) IN
       IF dest \in DOMAIN indegree /\ indegree[dest] > 0
       THEN LET degree == indegree[dest] - 1
            IN Relax(Tail(dests), [indegree EXCEPT ![dest] = degree],
                     IF ReachedZero(degree) THEN Append(queue, dest) ELSE queue)
       ELSE Relax(Tail(dests), indegree, queue)

RECURSIVE KahnLoop(_, _, _, _, _)
\* rebuildTopology(): "while (index < queue.size())" (index counted from 1)
KahnLoop(queue, index, indegree, order, adjacency) ==
  IF index > Len(queue) THEN [order |-> order, indegree |-> indegree]
  ELSE LET current == queue[index]
           r == IF current \in DOMAIN adjacency
                THEN Relax(adjacency[current], indegree, queue)
                ELSE [indegree |-> indegree, queue |-> queue]
       IN KahnLoop(r.queue, index + 1, r.indegree, Append(order, current), adjacency)

RECURSIVE AppendLeftover(_, _, _)
\* rebuildTopology(): the loop appending nodes whose degree stayed positive
AppendLeftover(ids, indegree, order) ==
  IF ids = <<>> THEN order
  ELSE LET id == Head(ids) IN
       AppendLeftover(Tail(ids), indegree,
         IF indegree[id] > 0 /\ id \notin Range(order)
         THEN Append(order, id) ELSE order)

\* rebuildTopology(): renderOrder_ from the indegree and adjacency maps,
\* where ordIndegree is the order in which the unordered map indegree is
\* iterated.
RenderOrderOf(indegree, adjacency, ordIndegree) ==
  LET IsRoot(id) == indegree[id] = 0
      queue == SelectSeq(ordIndegree, IsRoot)
      kahn  == KahnLoop(queue, 1, indegree, <<>>, adjacency)
  IN AppendLeftover(ordIndegree, kahn.indegree, kahn.order)

\* rebuildTopology(): outputSources_, where ordNodes and ordOutput are the
\* orders in which nodes_ and sourcesFeedingOutput are iterated.
OutputSourcesOf(sourcesFeedingOutput, adjacency, ordNodes, ordOutput) ==
  IF sourcesFeedingOutput # {}
  THEN ordOutput
  ELSE LET Sink(id) == IsSink(id, adjacency)
       IN SelectSeq(ordNodes, Sink)

\* void SceneGraph::rebuildTopology() on the new node ids N and connection
\* list conns: the caches are cleared and, unless N is empty, recomputed, for
\* some iteration order of each unordered container.
rebuildTopology(N, conns) ==
  IF N = {}
  THEN /\ renderOrder' = <<>>
       /\ inboundEdges' = EmptyMap
       /\ outputSources' = <<>>
  ELSE \E indegree \in {Indegree(N, conns)}, adjacency \in {Adjacency(N, conns)},
          sourcesFeedingOutput \in {SourcesFeedingOutput(N, conns)},
          orders \in {Perms(N)} :
          /\ inboundEdges' = Inbound(N, conns)
          /\ \E topology \in
                 {RenderOrderOf(indegree, adjacency, ordIndegree) :
                    ordIndegree \in orders} \X
                 {OutputSourcesOf(sourcesFeedingOutput, adjacency, ordNodes, ordOutput) :
                    ordNodes \in IF sourcesFeedingOutput # {} THEN {<<>>} ELSE orders,
                    ordOutput \in Perms(sourcesFeedingOutput)} :
               /\ renderOrder' = topology[1]
               /\ outputSources' = topology[2]

\* std::unordered_map::emplace(key, value): the map afterwards and
\* result.second, whether the pair was inserted.
emplaceOverwrite(map, key, value) ==
  [second |-> TRUE,
   map |-> [x \in DOMAIN map \cup {key} |-> IF x = key THEN value ELSE map[x]]]
emplace(map, key, value) ==
  IF key \in DOMAIN map
  THEN [second |-> FALSE, map |-> map]
  ELSE [second |-> TRUE, map |-> map @@ (key :> value)]

\* A GainNode after construction and prepare(): gain_ = 1.0
GainNode == [gain |-> 1]

\* ClipPlayerNode::process(): "effectiveEnd = std::min(std::max(startFrame_,
\* endFrame_), startFrame + bufferFrameCount)"
effectiveEnd(node) ==
  Min(Max(node.startFrame, node.endFrame), node.startFrame + Len(node.clipBuffer))

\* "playbackFrames = effectiveEnd > startFrame ? (effectiveEnd - startFrame) : 0"
playbackFrames(node) ==
  IF effectiveEnd(node) > node.startFrame
  THEN effectiveEnd(node) - node.startFrame ELSE 0

\* "fadeOutStart = (fadeOutFrames_ >= playbackFrames || playbackFrames == 0)
\*                 ? startFrame : (effectiveEnd - fadeOutFrames_)"
fadeOutStart(node) ==
  IF node.fadeOutFrames >= playbackFrames(node) \/ playbackFrames(node) = 0
  THEN node.startFrame ELSE effectiveEnd(node) - node.fadeOutFrames

\* "absoluteFrame = processedFrames_ + frameIndex"
absoluteFrameInBlock(node, frameIndex) == frameIndex
absoluteFrame(node, frameIndex) == node.processedFrames + frameIndex

\* The numerator of the fade-in factor: "static_cast<double>(offset + 1)"
fadeInStepFromZero(offset) == offset
fadeInStep(offset) == offset + 1

\* The body of the frame loop of process() for the frame at position
\* frameIndex of a view whose sample there holds prior: the sample afterwards.
\* The amplitude gain_ * (offset + 1) / fadeInFrames_ * remaining / divisor is
\* kept as a fraction and applied to the clip's sample in one division.
ClipFrame(node, frameIndex, prior) ==
  LET absolute  == absoluteFrame(node, frameIndex)
      startFrame == node.startFrame
      bufferFrame == absolute - startFrame
      fadeIn  == IF node.fadeInFrames > 0 /\ absolute < startFrame + node.fadeInFrames
                 THEN <<fadeInStep(absolute - startFrame), node.fadeInFrames>>
                 ELSE <<1, 1>>
      fadeOut == IF node.fadeOutFrames > 0 /\ absolute >= fadeOutStart(node)
                 THEN <<IF effectiveEnd(node) > absolute
                        THEN effectiveEnd(node) - absolute ELSE 0,
                        Max(1, Min(node.fadeOutFrames, playbackFrames(node)))>>
                 ELSE <<1, 1>>
  IN IF absolute < startFrame \/ absolute >= effectiveEnd(node) THEN prior
     ELSE IF bufferFrame >= Len(node.clipBuffer) THEN prior
     ELSE (node.clipBuffer[bufferFrame + 1] * node.gain * fadeIn[1] * fadeOut[1])
            \div (fadeIn[2] * fadeOut[2])

\* void ClipPlayerNode::process(AudioBufferView buffer) on a view of
\* channelCount channels whose frames hold the samples priors: the node and
\* the samples afterwards.
ClipProcess(node, channelCount, priors) ==
  LET frameCount == Len(priors)
      advanced == [node EXCEPT !.processedFrames = @ + frameCount]
  IN IF frameCount = 0 THEN [state |-> node, samples |-> priors]
     ELSE IF node.clipBuffer = <<>> THEN [state |-> advanced, samples |-> priors]
     ELSE IF channelCount = 0 THEN [state |-> advanced, samples |-> priors]
     ELSE [state |-> advanced,
           samples |-> [k \in 1..frameCount |-> ClipFrame(node, k - 1, priors[k])]]

\* ClipPlayerNode::sanitizeFrameValue / sanitizeCountValue on an integer value
sanitizeFrameValue(value) == IF value <= 0 THEN 0 ELSE value
sanitizeCountValue(value) == IF value <= 0 THEN 0 ELSE value

\* void ClipPlayerNode::setParameter(name, value) with an integer value; the
\* declared buffer metadata (buffersamplerate, bufferchannels, bufferframes)
\* is not read by process() and is left out of the node.
ClipSetParameter(node, name, value) ==
  CASE name = "startframe"    -> [node EXCEPT !.startFrame = sanitizeFrameValue(value)]
    [] name = "endframe"      -> [node EXCEPT !.endFrame = sanitizeFrameValue(value)]
    [] name = "fadeinframes"  -> [node EXCEPT !.fadeInFrames = sanitizeCountValue(value)]
    [] name = "fadeoutframes" -> [node EXCEPT !.fadeOutFrames = sanitizeCountValue(value)]
    [] name = "gain"          -> [node EXCEPT !.gain = value]
    [] OTHER -> node

\* ClipPlayerNode::prepare() / reset(): "processedFrames_ = 0"
rewoundNever(node) == node
rewound(node) == [node EXCEPT !.processedFrames = 0]

\* Whether the object a node id owns is a ClipPlayerNode (else a GainNode).
IsClipPlayer(object) == "processedFrames" \in DOMAIN object

\* addNode(): "node->prepare(sampleRate_)" on the object handed over, for a
\* graph constructed at 48 kHz.
prepared(object) ==
  IF IsClipPlayer(object)
  THEN [rewound(object) EXCEPT !.sampleRate = 48000]
  ELSE object


\* bool SceneGraph::addNode(id, node); node is the address of the DSPNode the
\* caller hands over, 0 for a null pointer.
AddNodeOf(id, node, object) ==
  /\ node \notin Range(nodes)
  /\ IF node = 0
     THEN /\ lastOp' = Op("addNode", FALSE, "")
          /\ UNCHANGED graphVars
     ELSE LET result == emplace(nodes, id, node)
          IN IF result.second
             THEN /\ nodes' = result.map
                  /\ nodeState' = [x \in DOMAIN nodeState \cup {id} |->
                                     IF x = id THEN prepared(object)
                                     ELSE nodeState[x]]
                  /\ nodeBuffers' = IF id \in DOMAIN nodeBuffers THEN nodeBuffers
                                    ELSE nodeBuffers @@ (id :> DefaultNodeBuffer)
                  /\ UNCHANGED connections
                  /\ rebuildTopology(DOMAIN nodes', connections')
                  /\ lastOp' = Op("addNode", TRUE, "")
             ELSE /\ lastOp' = Op("addNode", FALSE, "")
                  /\ UNCHANGED graphVars
  /\ UNCHANGED <<bridge, raceVars, clipVars, pluginVars, clockVars, schedVars, stale, accepted, consumed, invoked>>

\* addNode(id, node) with a newly made GainNode
AddNode(id, node) == AddNodeOf(id, node, GainNode)

\* void SceneGraph::removeNode(id)
RemoveNode(id) ==
  /\ nodes' = [x \in DOMAIN nodes \ {id} |-> nodes[x]]
  /\ nodeState' = [x \in DOMAIN nodeState \ {id} |-> nodeState[x]]
  /\ nodeBuffers' = [x \in DOMAIN nodeBuffers \ {id} |-> nodeBuffers[x]]
  /\ LET Keep(conn) == ~Incident(conn, id)
     IN connections' = SelectSeq(connections, Keep)
  /\ rebuildTopology(DOMAIN nodes', connections')
  /\ \E pending \in {Pending} :
       stale' = IF id \in DOMAIN nodes
                THEN stale \cup {pending[i].callback.id : i \in
                       {k \in DOMAIN pending : pending[k].callback.node = nodes[id]}}
                ELSE stale
  /\ lastOp' = [Op("removeNode", TRUE, "") EXCEPT
                  !.n = Len(connections) - Len(connections')]
  /\ UNCHANGED <<bridge, raceVars, clipVars, pluginVars, clockVars, schedVars, accepted, consumed, invoked>>

\* bool SceneGraph::connect(source, destination)
Connect(source, destination) ==
  /\ Len(connections) < MaxConns
  /\ IF source \notin DOMAIN nodes
     THEN /\ lastOp' = Op("connect", FALSE, "")
          /\ UNCHANGED <<connections, topoVars>>
     ELSE IF destination # kOutputBusId /\ destination \notin DOMAIN nodes
     THEN /\ lastOp' = Op("connect", FALSE, "")
          /\ UNCHANGED <<connections, topoVars>>
     ELSE IF \E i \in DOMAIN connections : SamePair(connections[i], source, destination)
     THEN /\ lastOp' = Op("connect", FALSE, "")
          /\ UNCHANGED <<connections, topoVars>>
     ELSE /\ connections' = Append(connections,
                                   [source |-> source, destination |-> destination])
          /\ rebuildTopology(DOMAIN nodes, connections')
          /\ lastOp' = Op("connect", TRUE, "")
  /\ UNCHANGED <<bridge, raceVars, clipVars, pluginVars, nodes, nodeBuffers, nodeState, clockVars, schedVars,
                 stale, accepted, consumed, invoked>>

\* void SceneGraph::disconnect(source, destination)
Disconnect(source, destination) ==
  /\ LET Keep(conn) == ~SamePair(conn, source, destination)
     IN connections' = SelectSeq(connections, Keep)
  /\ rebuildTopology(DOMAIN nodes, connections')
  /\ lastOp' = [Op("disconnect", TRUE, "") EXCEPT
                  !.n = Len(connections) - Len(connections')]
  /\ UNCHANGED <<bridge, raceVars, clipVars, pluginVars, nodes, nodeBuffers, nodeState, clockVars, schedVars,
                 stale, accepted, consumed, invoked>>

\* render(): the test that rejects an output view larger than the scratch
\* buffers
IsOversizedFramesOnly(channelCount, frameCount) == frameCount > kMaxFrames
IsOversized(channelCount, frameCount) ==
  channelCount > kMaxChannels \/ frameCount > kMaxFrames

\* An AudioBufferView of channelCount x frameCount samples; sample is the
\* value every one of its samples holds.
View(channelCount, frameCount, sample) ==
  [channelCount |-> channelCount, frameCount |-> frameCount, sample |-> sample]

\* void AudioBufferView::fill(value)
fillNothing(view, value) == view
fill(view, value) == [view EXCEPT !.sample = value]

\* void AudioBufferView::addBufferInPlace(other): "dest[i] += src[i]"
addBufferReplacing(view, other) == [view EXCEPT !.sample = other.sample]
addBufferInPlace(view, other) == [view EXCEPT !.sample = @ + other.sample]

\* NodeBuffer::configure -> StackAudioBuffer::setFrameCount, and the channel
\* pointers set for the first channelCount channels; the samples stay.
configure(buffer, channelCount, frameCount) ==
  [buffer EXCEPT !.frameCount = Min(frameCount, kMaxFrames),
                 !.channelCount = Min(channelCount, kMaxChannels)]

\* NodeBuffer::view(channelCount)
view(buffer, channelCount) == View(channelCount, buffer.frameCount, buffer.sample)

\* A map after a lookup of key: operator[] inserts a default value for a
\* missing key, find() leaves the map as it is.
AfterIndex(map, key, default) ==
  IF key \in DOMAIN map THEN map ELSE map @@ (key :> default)
AfterFind(map, key, default) == map

\* void GainNode::setParameter(name, value)
setParameter(state, name, value) ==
  IF name = "gain" THEN [state EXCEPT !.gain = value] ELSE state

\* void GainNode::process(buffer): every sample is multiplied by gain_; the
\* node itself is left as it is.
process(state, buffer) ==
  [state |-> state, buffer |-> [buffer EXCEPT !.sample = @ * state.gain]]

\* "nodeIt->second->process(view)": the virtual call on the object the graph
\* owns.  A clip player is only rendered on views of at most one frame, whose
\* samples all hold one value before and after.
processNode(state, buffer) ==
  IF IsClipPlayer(state)
  THEN LET r == ClipProcess(state, buffer.channelCount,
                            [k \in 1..buffer.frameCount |-> buffer.sample])
       IN [state |-> r.state,
           buffer |-> [buffer EXCEPT !.sample =
                         IF r.samples = <<>> THEN @
                         ELSE CHOOSE v \in Range(r.samples) :
                                \A k \in DOMAIN r.samples : r.samples[k] = v]]
  ELSE process(state, buffer)

\* The parameter the automation callbacks set: the bridge schedules
\* "node.setParameter(parameter, value)".
AutoParameter == "gain"

RECURSIVE ApplyCalls(_, _)
\* The callbacks of one dispatch, "cb(*node)", applied in order: each sets the
\* parameter of the object at the address it captured.  A callback whose node
\* was destroyed writes to whichever node occupies that address now, and to
\* released storage when none does.
ApplyCalls(calls, states) ==
  IF calls = <<>> THEN states
  ELSE LET call == Head(calls)
           hit  == {id \in DOMAIN nodes : nodes[id] = call.node}
       IN ApplyCalls(Tail(calls),
            [id \in DOMAIN states |->
               IF id \in hit
               THEN setParameter(states[id], AutoParameter, call.value)
               ELSE states[id]])

\* void SceneGraph::ensureNodeBuffers(channelCount, frameCount): the scratch
\* buffers after the loop over nodes_ ("nodeBuffers_[id]" inserts a buffer
\* for a node that has none).
ensureNodeBuffers(channelCount, frameCount) ==
  [id \in DOMAIN nodes \cup DOMAIN nodeBuffers |->
     IF id \in DOMAIN nodes
     THEN configure(IF id \in DOMAIN nodeBuffers THEN nodeBuffers[id]
                    ELSE DefaultNodeBuffer, channelCount, frameCount)
     ELSE nodeBuffers[id]]

RECURSIVE MixInbound(_, _, _)
\* render(): the loop over inboundIt->second adding each source's scratch
\* buffer to the scratch buffer of nodeId.
MixInbound(sources, buffers, nodeId) ==
  IF sources = <<>> THEN buffers
  ELSE LET sourceId == Head(sources)
       IN MixInbound(Tail(sources),
            IF sourceId \in DOMAIN buffers
            THEN [buffers EXCEPT ![nodeId].sample = @ + buffers[sourceId].sample]
            ELSE buffers,
            nodeId)

RECURSIVE RenderLoop(_, _, _)
\* render(): "for (const auto& nodeId : renderOrder_)" from loop state
\* st = [buffers, states, inbound, processed]: the scratch buffers, the
\* nodes, inboundEdges_ and the nodes processed so far.
RenderLoop(order, channelCount, st) ==
  IF order = <<>> THEN st
  ELSE LET nodeId == Head(order) IN
       IF nodeId \notin DOMAIN nodes \/ nodeId \notin DOMAIN st.buffers
       THEN RenderLoop(Tail(order), channelCount, st)
       ELSE LET cleared == [st.buffers EXCEPT
                              ![nodeId].sample =
                                fill(view(st.buffers[nodeId], channelCount), 0).sample]
                inbound == AfterFind(st.inbound, nodeId, <<>>)
                mixed   == IF nodeId \in DOMAIN inbound
                           THEN MixInbound(inbound[nodeId], cleared, nodeId)
                           ELSE cleared
                r       == processNode(st.states[nodeId],
                                       view(mixed[nodeId], channelCount))
            IN RenderLoop(Tail(order), channelCount,
                 [buffers   |-> [mixed EXCEPT ![nodeId].sample = r.buffer.sample],
                  states    |-> [st.states EXCEPT ![nodeId] = r.state],
                  inbound   |-> inbound,
                  processed |-> Append(st.processed, nodeId)])

RECURSIVE MixOutput(_, _, _)
\* render(): the loop over outputSources_ adding each source's scratch
\* buffer to the output view.
MixOutput(sources, buffers, outputBuffer) ==
  IF sources = <<>> THEN outputBuffer
  ELSE LET sourceId == Head(sources)
       IN MixOutput(Tail(sources), buffers,
            IF sourceId \in DOMAIN buffers
            THEN addBufferInPlace(outputBuffer,
                                  view(buffers[sourceId], outputBuffer.channelCount))
            ELSE outputBuffer)

\* The record of a render call on a view of channelCount x frameCount samples.
RenderOp(ok, err, channelCount, frameCount, outputBuffer, processed) ==
  [Op("render", ok, err) EXCEPT !.channels = channelCount, !.frames = frameCount,
                                !.out = outputBuffer.sample, !.processed = processed]

\* The same record with the value the samples of the view held on entry.
RenderOf(input, op) == [op EXCEPT !.input = input]

\* void SceneGraph::render(AudioBufferView outputBuffer) on a view of
\* channelCount x frameCount samples that all hold the value input.
\* ensureNodeBuffers() configures every node's buffer and then calls
\* clock_.setFramesPerBuffer(frameCount), which throws std::invalid_argument
\* for 0 frames: the call is left there, after the dispatch and before any
\* node is processed and the clock advances.
Render(channelCount, frameCount, input) ==
  /\ frameTime < MaxTime
  /\ LET outputBuffer == View(channelCount, frameCount, input) IN
     IF IsOversized(channelCount, frameCount)
     THEN /\ lastOp' = RenderOf(input, RenderOp(TRUE, "", channelCount, frameCount,
                                                fill(outputBuffer, 0), <<>>))
          /\ UNCHANGED <<readIndex, invoked, consumed, nodeBuffers, nodeState,
                         inboundEdges, clockVars>>
     ELSE \E r \in {dispatchDueEvents} :
          LET zeroed  == fill(outputBuffer, 0)
              buffers == ensureNodeBuffers(channelCount, frameCount)
          IN /\ readIndex' = r.read
             /\ invoked' = invoked \o r.calls
             /\ consumed' = consumed + r.count
             /\ IF frameCount = 0
                THEN /\ nodeState' = ApplyCalls(r.calls, nodeState)
                     /\ nodeBuffers' = buffers
                     /\ UNCHANGED <<inboundEdges, clockVars>>
                     /\ lastOp' = RenderOf(input,
                                     RenderOp(FALSE, "InvalidArgument", channelCount,
                                              frameCount, zeroed, <<>>))
                ELSE \E st \in {RenderLoop(renderOrder, channelCount,
                                   [buffers   |-> buffers,
                                    states    |-> ApplyCalls(r.calls, nodeState),
                                    inbound   |-> inboundEdges,
                                    processed |-> <<>>])} :
                        /\ nodeState' = st.states
                        /\ nodeBuffers' = st.buffers
                        /\ inboundEdges' = st.inbound
                        /\ framesPerBuffer' = frameCount
                        /\ frameTime' = frameTime + frameCount
                        /\ lastOp' = RenderOf(input,
                                        RenderOp(TRUE, "", channelCount, frameCount,
                                          MixOutput(outputSources, st.buffers, zeroed),
                                          st.processed))
  /\ UNCHANGED <<bridge, raceVars, clipVars, pluginVars, events, writeIndex, nodes, connections, renderOrder, outputSources,
                 stale, accepted>>

\* void SceneGraph::scheduleAutomation(nodeId, cb, frame): the closure handed
\* to the scheduler captures the raw address of the node, nodes_[nodeId].get();
\* cb sets the node's parameter to value.
ScheduleAutomation(nodeId, frame, value) ==
  /\ Len(accepted) < MaxAuto \/ Len(Pending) = MaxEvents
  /\ IF nodeId \notin DOMAIN nodes
     THEN /\ lastOp' = Op("scheduleAutomation", FALSE, "Node not found")
          /\ UNCHANGED <<events, writeIndex, accepted>>
     ELSE LET id == Len(accepted) + 1
              r  == schedule([frame |-> frame,
                              callback |-> [set |-> TRUE, id |-> id,
                                            node |-> nodes[nodeId], value |-> value]])
          IN /\ events' = r.events
             /\ writeIndex' = r.writeIndex
             /\ accepted' = IF r.ok
                            THEN Append(accepted, [frame |-> frame, set |-> TRUE])
                            ELSE accepted
             /\ lastOp' = IF r.ok THEN Op("scheduleAutomation", TRUE, "")
                          ELSE Op("scheduleAutomation", FALSE, "Scheduler queue is full")
  /\ UNCHANGED <<bridge, raceVars, clipVars, pluginVars, readIndex, clockVars, graphVars, stale, consumed, invoked>>

(* ------------------- control-plane mutations of a graph --------------- *)

\* Node ids the control plane uses, and the destinations it connects to.
NodeIds == {"a", "b", "c"}
Destinations == NodeIds \cup {kOutputBusId}

\* The ids handed to removeNode: any string, the reserved one included.
RemoveIds == NodeIds \cup {kOutputBusId}

\* The address of the DSPNode the caller creates for each id, and of the
\* second node a caller offers under an id that is already taken.
NodeAddr == ("a" :> 1) @@ ("b" :> 2) @@ ("c" :> 3)
SpareAddr == Cardinality(NodeIds) + 1

NextGraph ==
  \/ \E id \in NodeIds :
       \E node \in {IF id \in DOMAIN nodes THEN SpareAddr ELSE NodeAddr[id]} :
         AddNode(id, node)
  \/ \E id \in RemoveIds : RemoveNode(id)
  \/ \E source \in NodeIds, destination \in Destinations :
       Connect(source, destination)
  \/ \E source \in NodeIds, destination \in Destinations :
       Disconnect(source, destination)

SpecGraph == Init /\ [][NextGraph]_vars

(* ------------ mutations that use the id of the output bus ------------- *)

\* The ids handed to addNode, removeNode, connect and disconnect: a plain id
\* and the id of the output bus, with the address of the node added under
\* each.
BusIds == {"a", kOutputBusId}
BusAddr == ("a" :> 1) @@ (kOutputBusId :> 2)

NextBus ==
  \/ \E id \in BusIds : AddNode(id, BusAddr[id])
  \/ \E id \in BusIds : RemoveNode(id)
  \/ \E source \in BusIds, destination \in BusIds : Connect(source, destination)
  \/ \E source \in BusIds, destination \in BusIds : Disconnect(source, destination)

SpecBus == Init /\ [][NextBus]_vars

(* ----------------- rendering with scheduled automation ---------------- *)

\* Node ids and node addresses used while rendering; a node handed to addNode
\* lives at any address no live node occupies, also one a destroyed node had.
RenderIds == {"a"}
Addrs == {1, 2}
\* Trigger frames of the automations: immediate and delayed.
AutoFrames == {0, MaxFrame}

\* Output view shapes (channels, frames) handed to render.
Shapes ==
  {<<kMaxChannels, 1>>, <<2, 0>>, <<0, kMaxFrames>>,
   <<kMaxChannels + 1, 1>>, <<1, kMaxFrames + 1>>}
\* The value the samples of the output view hold when render is called, and
\* the value an automation sets the gain to.
InputSamples == {1}
AutoValues == {2}

NextRender ==
  \/ \E id \in RenderIds, node \in Addrs \cup {0} : AddNode(id, node)
  \/ \E id \in RenderIds : RemoveNode(id)
  \/ \E id \in RenderIds, frame \in AutoFrames, value \in AutoValues :
       ScheduleAutomation(id, frame, value)
  \/ \E shape \in Shapes, input \in InputSamples :
       Render(shape[1], shape[2], input)

SpecRender == Init /\ [][NextRender]_vars

(* ------------------- rendering a graph of connected nodes ------------- *)

\* Node ids of the graphs rendered, and the objects handed to addNode under
\* each: a GainNode as constructed or one whose gain was set to 2, and a
\* ClipPlayerNode holding a one-frame clip that plays at frame 1.
MixIds == {"a", "b"}
ClipSource ==
  [ClipPlayerNode EXCEPT !.clipBuffer = <<4>>, !.startFrame = 1, !.endFrame = 2]
MixObjects ==
  ("a" :> {GainNode, ClipSource}) @@
  ("b" :> {setParameter(GainNode, "gain", 2), ClipSource})

\* The connections made: a chain through both nodes, each node to the
\* output bus, and the edge that closes a cycle.
MixEdges ==
  {<<"a", "b">>, <<"a", kOutputBusId>>, <<"b", kOutputBusId>>, <<"b", "a">>}

\* One-frame output views of two channels.
MixShapes == {<<2, 1>>}

NextMix ==
  \/ \E id \in MixIds : \E object \in MixObjects[id] :
       AddNodeOf(id, NodeAddr[id], object)
  \/ \E id \in MixIds : RemoveNode(id)
  \/ \E edge \in MixEdges : Connect(edge[1], edge[2])
  \/ \E edge \in MixEdges : Disconnect(edge[1], edge[2])
  \/ \E shape \in MixShapes, input \in InputSamples :
       Render(shape[1], shape[2], input)

SpecMix == Init /\ [][NextMix]_vars

(* -------------- automation of a gain fed by a sounding clip ----------- *)

\* A clip player that sounds 4 on every frame a render can reach, added
\* under id "a", and the GainNode under id "b" it feeds and the automations
\* target.
AutoSource == "a"
AutoTarget == "b"
AutoClip ==
  [ClipPlayerNode EXCEPT !.clipBuffer = [k \in 1..(MaxTime + 2) |-> 4],
                         !.endFrame = MaxTime + 2]
AutoObjects == (AutoSource :> AutoClip) @@ (AutoTarget :> GainNode)

\* One-channel views of one and of two frames, and the values set.
AutoShapes == {<<1, 1>>, <<1, 2>>}
AutoGains == {2, 3}

NextAuto ==
  \/ \E id \in {AutoSource, AutoTarget} : AddNodeOf(id, NodeAddr[id], AutoObjects[id])
  \/ Connect(AutoSource, AutoTarget)
  \/ \E frame \in AutoFrames, value \in AutoGains :
       ScheduleAutomation(AutoTarget, frame, value)
  \/ \E shape \in AutoShapes, input \in InputSamples :
       Render(shape[1], shape[2], input)

SpecAuto == Init /\ [][NextAuto]_vars

(* ---------------------- PluginNode and PluginHostBridge --------------- *)

\* The capability flags the plugin node was constructed with (the tests set
\* acceptsAudio and emitsAudio).
capabilities ==
  [acceptsAudio |-> TRUE, emitsAudio |-> TRUE, acceptsMidi |-> FALSE,
   emitsMidi |-> FALSE, acceptsSidechain |-> FALSE, emitsSidechain |-> FALSE]

\* The RenderContext the tests register as user data (address 1): the gain
\* GainRenderCallback applies.
RenderContext == [gain |-> 2]

\* PluginNode::process(): "bypassed_.load(std::memory_order_acquire)"
IsBypassedNever(flag) == FALSE
IsBypassed(flag) == flag

\* PluginNode::process(): "hostInstanceId_.empty()"
IsEmptyIdNever(id) == FALSE
IsEmptyId(id) == id = ""

\* PluginNode::process(): "buffer.frameCount() == 0 || buffer.channelCount() == 0"
IsEmptyView(buffer) == buffer.frameCount = 0 \/ buffer.channelCount = 0

\* PluginNode::truthy(value): |value| > epsilon, on integer values
truthy(value) == value # 0

\* PluginNode::toLower(name), on the parameter names handed to setParameter
toLower(name) ==
  CASE name = "Bypass" -> "bypass"
    [] name = "hostInstanceId" -> "hostinstanceid"
    [] OTHER -> name

\* std::to_string(rounded): the decimal digits of a non-negative integer
Digits == <<"0", "1", "2", "3", "4", "5", "6", "7", "8", "9">>
RECURSIVE to_string(_)
to_string(rounded) ==
  IF rounded < Len(Digits) THEN Digits[rounded + 1]
  ELSE to_string(rounded \div Len(Digits)) \o Digits[(rounded % Len(Digits)) + 1]

\* A registered host callback called with (request, userData): what it
\* returns, whether it throws, and the request's buffer afterwards.
\* "gain" is the tests' GainRenderCallback; "fail" reports a failed render
\* and "throw" throws, both before writing a sample; "scribble" applies the
\* gain to the samples and then throws.
Call(callback, request, userData) ==
  CASE callback = "gain" ->
         IF userData = 0
         THEN [thrown |-> FALSE, result |-> [success |-> FALSE, pluginBypassed |-> FALSE],
               buffer |-> request.audioBuffer]
         ELSE [thrown |-> FALSE, result |-> [success |-> TRUE, pluginBypassed |-> FALSE],
               buffer |-> [request.audioBuffer EXCEPT !.sample = @ * RenderContext.gain]]
    [] callback = "fail" ->
         [thrown |-> FALSE, result |-> [success |-> FALSE, pluginBypassed |-> FALSE],
          buffer |-> request.audioBuffer]
    [] callback = "scribble" ->
         [thrown |-> TRUE, result |-> [success |-> FALSE, pluginBypassed |-> FALSE],
          buffer |-> [request.audioBuffer EXCEPT !.sample = @ * RenderContext.gain]]
    [] OTHER ->
         [thrown |-> TRUE, result |-> [success |-> FALSE, pluginBypassed |-> FALSE],
          buffer |-> request.audioBuffer]

\* PluginHostBridge::Render(): "try { return callback(request, userData); }
\* catch (...) { return PluginRenderResult{false, false}; }" on the outcome r
\* of the call.
CaughtAsSuccess(r) ==
  IF r.thrown THEN [success |-> TRUE, pluginBypassed |-> FALSE] ELSE r.result
Caught(r) ==
  IF r.thrown THEN [success |-> FALSE, pluginBypassed |-> FALSE] ELSE r.result

\* std::optional<PluginRenderResult> PluginHostBridge::Render(request):
\* has_value, the result, the requests the callback received and the buffer.
HostRender(request) ==
  LET callback == gRenderCallback IN
  IF callback = nullptr
  THEN [has_value |-> FALSE, result |-> [success |-> FALSE, pluginBypassed |-> FALSE],
        requests |-> <<>>, buffer |-> request.audioBuffer]
  ELSE LET userData == gRenderUserData
           r == Call(callback, request, userData)
       IN [has_value |-> TRUE,
           result |-> Caught(r),
           requests |-> <<[hostInstanceId |-> request.hostInstanceId,
                           sampleRate |-> request.sampleRate,
                           capabilities |-> request.capabilities,
                           bypassed |-> request.bypassed,
                           userData |-> userData]>>,
           buffer |-> r.buffer]

\* The record of a process call on the plugin node: the view before and
\* after, the requests the host callback received, the lines logged and what
\* PluginHostBridge::Render returned, if it was called.
ProcessOp(buffer, out, requests, logged) ==
  [Op("process", TRUE, "") EXCEPT !.channels = buffer.channelCount,
                                  !.frames = buffer.frameCount,
                                  !.input = buffer.sample, !.out = out.sample,
                                  !.requests = requests, !.logged = logged]

HostOp(buffer, result, logged) ==
  [ProcessOp(buffer, result.buffer, result.requests, logged) EXCEPT
     !.host = [has_value |-> result.has_value, success |-> result.result.success,
               pluginBypassed |-> result.result.pluginBypassed]]

\* PluginNode::process(): "PluginRenderRequest request{hostInstanceId_, buffer,
\* sampleRate(), capabilities_, false}"
PluginRenderRequestDefaultRate(buffer) ==
  [hostInstanceId |-> hostInstanceId, audioBuffer |-> buffer,
   sampleRate |-> 0, capabilities |-> capabilities, bypassed |-> FALSE]
PluginRenderRequest(buffer) ==
  [hostInstanceId |-> hostInstanceId, audioBuffer |-> buffer,
   sampleRate |-> sampleRate, capabilities |-> capabilities, bypassed |-> FALSE]

\* PluginNode::logHostUnavailable() / logRenderFailure(): the lines written
\* when the flag compare_exchange_strong(expected = false, true) tests holds
\* the value logged.
logHostUnavailableAlways(logged) == <<"Plugin host unavailable">>
logHostUnavailable(logged) ==
  IF logged THEN <<>> ELSE <<"Plugin host unavailable">>
logRenderFailure(logged) ==
  IF logged THEN <<>> ELSE <<"Plugin host render failed">>

\* The count of logged lines of a run after a call that logged lines.
Counted(count, lines) == Min(count + Len(lines), 2)

\* void PluginNode::process(AudioBufferView buffer) on a view of
\* channelCount x frameCount samples that all hold the value input.
PluginProcess(channelCount, frameCount, input) ==
  /\ LET buffer == View(channelCount, frameCount, input) IN
     IF IsEmptyView(buffer)
     THEN /\ lastOp' = ProcessOp(buffer, buffer, <<>>, <<>>)
          /\ UNCHANGED <<hostUnavailableLogged, renderFailureLogged, runLogs>>
     ELSE IF IsBypassed(bypassed)
     THEN /\ lastOp' = ProcessOp(buffer, buffer, <<>>, <<>>)
          /\ UNCHANGED <<hostUnavailableLogged, renderFailureLogged, runLogs>>
     ELSE IF IsEmptyId(hostInstanceId)
     THEN \E lines \in {logHostUnavailable(hostUnavailableLogged)} :
          /\ lastOp' = ProcessOp(buffer, buffer, <<>>, lines)
          /\ hostUnavailableLogged' = TRUE
          /\ runLogs' = [runLogs EXCEPT !.unavailable = Counted(@, lines)]
          /\ UNCHANGED renderFailureLogged
     ELSE LET request == PluginRenderRequest(buffer)
              result == HostRender(request)
          IN IF ~result.has_value
             THEN \E lines \in {logHostUnavailable(hostUnavailableLogged)} :
                  /\ lastOp' = HostOp(buffer, result, lines)
                  /\ hostUnavailableLogged' = TRUE
                  /\ runLogs' = [runLogs EXCEPT !.unavailable = Counted(@, lines)]
                  /\ UNCHANGED renderFailureLogged
             ELSE IF ~result.result.success
             THEN \E lines \in {logRenderFailure(renderFailureLogged)} :
                  /\ lastOp' = HostOp(buffer, result, lines)
                  /\ hostUnavailableLogged' = FALSE
                  /\ renderFailureLogged' = TRUE
                  /\ runLogs' = [unavailable |-> 0,
                                 failure |-> Counted(runLogs.failure, lines)]
             ELSE /\ lastOp' = HostOp(buffer, result, <<>>)
                  /\ hostUnavailableLogged' = FALSE
                  /\ renderFailureLogged' = FALSE
                  /\ runLogs' = [unavailable |-> 0, failure |-> 0]
  /\ UNCHANGED <<bridge, raceVars, hostInstanceId, bypassed, sampleRate, hostVars,
                 clipVars, clockVars, schedVars, graphVars, stale, accepted, consumed, invoked>>

\* PluginNode::setParameter(): "if (rounded > 0)"
IsNonZeroAlways(rounded) == TRUE
IsNonZero(rounded) == rounded > 0

\* void PluginNode::setParameter(name, value) with a value that is not
\* finite ("nan", "inf" or "-inf"): truthy() is |value| > epsilon, which a
\* NaN fails, and "lowered == "hostinstanceid" && std::isfinite(value)" is
\* false, so that the call falls through to the end of the function.
PluginSetParameterNonFinite(name, value) ==
  /\ LET lowered == toLower(name) IN
     IF lowered = "bypass" \/ lowered = "bypassed"
     THEN bypassed' = (value # "nan")
     ELSE UNCHANGED bypassed
  /\ lastOp' = [Op("setParameter", TRUE, "") EXCEPT !.name = name, !.value = value,
                                                     !.finite = FALSE]
  /\ UNCHANGED <<bridge, raceVars, hostInstanceId, hostUnavailableLogged, runLogs,
                 renderFailureLogged, sampleRate, hostVars,
                 clipVars, clockVars, schedVars, graphVars, stale, accepted, consumed, invoked>>

\* void PluginNode::setParameter(name, value) with an integer value
PluginSetParameter(name, value) ==
  /\ LET lowered == toLower(name) IN
     IF lowered = "bypass" \/ lowered = "bypassed"
     THEN /\ bypassed' = truthy(value)
          /\ UNCHANGED <<hostInstanceId, hostUnavailableLogged, runLogs>>
     ELSE IF lowered = "hostinstanceid"
     THEN LET rounded == IF value < 0 THEN -value ELSE value IN
          IF IsNonZero(rounded)
          THEN /\ hostInstanceId' = to_string(rounded)
               /\ hostUnavailableLogged' = FALSE
               /\ runLogs' = [runLogs EXCEPT !.unavailable = 0]
               /\ UNCHANGED bypassed
          ELSE UNCHANGED <<hostInstanceId, hostUnavailableLogged, bypassed, runLogs>>
     ELSE UNCHANGED <<hostInstanceId, hostUnavailableLogged, bypassed, runLogs>>
  /\ lastOp' = [Op("setParameter", TRUE, "") EXCEPT !.name = name, !.value = value]
  /\ UNCHANGED <<bridge, raceVars, renderFailureLogged, sampleRate, hostVars,
                 clipVars, clockVars, schedVars, graphVars, stale, accepted, consumed, invoked>>

\* void PluginNode::setHostInstanceId(hostInstanceId)
SetHostInstanceId(id) ==
  /\ hostInstanceId' = id
  /\ hostUnavailableLogged' = FALSE
  /\ runLogs' = [runLogs EXCEPT !.unavailable = 0]
  /\ lastOp' = Op("setHostInstanceId", TRUE, "")
  /\ UNCHANGED <<bridge, raceVars, bypassed, renderFailureLogged, sampleRate, hostVars,
                 clipVars, clockVars, schedVars, graphVars, stale, accepted, consumed, invoked>>

\* void PluginNode::prepare(sampleRate): DSPNode::prepare, resetFailureFlags
PluginPrepare(rate) ==
  /\ sampleRate' = rate
  /\ hostUnavailableLogged' = FALSE
  /\ renderFailureLogged' = FALSE
  /\ runLogs' = [unavailable |-> 0, failure |-> 0]
  /\ lastOp' = Op("prepare", TRUE, "")
  /\ UNCHANGED <<bridge, raceVars, hostInstanceId, bypassed, hostVars,
                 clipVars, clockVars, schedVars, graphVars, stale, accepted, consumed, invoked>>

\* void PluginNode::reset(): resetFailureFlags
PluginReset ==
  /\ hostUnavailableLogged' = FALSE
  /\ renderFailureLogged' = FALSE
  /\ runLogs' = [unavailable |-> 0, failure |-> 0]
  /\ lastOp' = Op("reset", TRUE, "")
  /\ UNCHANGED <<bridge, raceVars, hostInstanceId, bypassed, sampleRate, hostVars,
                 clipVars, clockVars, schedVars, graphVars, stale, accepted, consumed, invoked>>

\* void PluginHostBridge::SetRenderCallback(callback, userData);
\* ClearRenderCallback() is SetRenderCallback(nullptr, nullptr).
SetRenderCallback(callback, userData) ==
  /\ gRenderUserData' = userData
  /\ gRenderCallback' = callback
  /\ lastOp' = Op("SetRenderCallback", TRUE, "")
  /\ UNCHANGED <<bridge, raceVars, nodeVars, clipVars, clockVars, schedVars, graphVars,
                 stale, accepted, consumed, invoked>>

\* The inputs of the plugin tests: the parameters set, the host instance
\* ids, the sample rates, the callbacks with their user data and the views.
ParameterNames == {"bypassed", "Bypass", "hostInstanceId", "gain"}
ParameterValues == {-1, 0, 42}
NonFiniteValues == {"nan", "inf", "-inf"}
HostIds == {"", "host-instance"}
SampleRates == {44100, 48000}
Registrations ==
  {<<nullptr, 0>>, <<"gain", 1>>, <<"gain", 0>>, <<"fail", 0>>, <<"throw", 0>>,
   <<"scribble", 1>>}
PluginViews == {<<1, 4>>, <<0, 4>>, <<1, 0>>}

NextPlugin ==
  \/ \E shape \in PluginViews, input \in InputSamples :
       PluginProcess(shape[1], shape[2], input)
  \/ \E name \in ParameterNames, value \in ParameterValues :
       PluginSetParameter(name, value)
  \/ \E name \in ParameterNames, value \in NonFiniteValues :
       PluginSetParameterNonFinite(name, value)
  \/ \E id \in HostIds : SetHostInstanceId(id)
  \/ \E rate \in SampleRates : PluginPrepare(rate)
  \/ PluginReset
  \/ \E registration \in Registrations :
       SetRenderCallback(registration[1], registration[2])

SpecPlugin == Init /\ [][NextPlugin]_vars

(* ----------------------------- ClipPlayerNode ------------------------- *)

\* Frames one behaviour lets the player process between two rewinds.
MaxClipFrames == 6

\* The tests' RenderBlock(node, frameCount): a cleared one-channel buffer of
\* frameCount frames is handed to node.process and returned.
RenderBlock(frameCount) ==
  /\ player.processedFrames + frameCount <= MaxClipFrames
  /\ LET r == ClipProcess(player, 1, [k \in 1..frameCount |-> 0])
     IN /\ player' = r.state
        /\ played' = played \o r.samples
        /\ lastOp' = [Op("RenderBlock", TRUE, "") EXCEPT !.channels = 1,
                                                        !.frames = frameCount,
                                                        !.block = r.samples]
  /\ UNCHANGED <<bridge, raceVars, origin, earlier, pluginVars, clockVars, schedVars, graphVars,
                 stale, accepted, consumed, invoked>>

\* node.setParameter(name, value)
PlayerSetParameter(name, value) ==
  /\ player' = ClipSetParameter(player, name, value)
  /\ played' = <<>>
  /\ origin' = player.processedFrames
  /\ earlier' = <<>>
  /\ lastOp' = Op("setParameter", TRUE, "")
  /\ UNCHANGED <<bridge, raceVars, pluginVars, clockVars, schedVars, graphVars,
                 stale, accepted, consumed, invoked>>

\* void ClipPlayerNode::setClipBuffer(ClipBufferData data) with a
\* one-channel clip; data without frames clears the buffer.
SetClipBuffer(data) ==
  /\ player' = [player EXCEPT !.clipBuffer = data]
  /\ played' = <<>>
  /\ origin' = player.processedFrames
  /\ earlier' = <<>>
  /\ lastOp' = Op("setClipBuffer", TRUE, "")
  /\ UNCHANGED <<bridge, raceVars, pluginVars, clockVars, schedVars, graphVars,
                 stale, accepted, consumed, invoked>>

\* void ClipPlayerNode::reset()
PlayerReset ==
  /\ player' = rewound(player)
  /\ earlier' = IF origin = 0 THEN played ELSE <<>>
  /\ played' = <<>>
  /\ origin' = 0
  /\ lastOp' = Op("reset", TRUE, "")
  /\ UNCHANGED <<bridge, raceVars, pluginVars, clockVars, schedVars, graphVars,
                 stale, accepted, consumed, invoked>>

\* void ClipPlayerNode::prepare(double sampleRate)
PlayerPrepare(rate) ==
  /\ player' = [rewound(player) EXCEPT !.sampleRate = rate]
  /\ earlier' = IF origin = 0 THEN played ELSE <<>>
  /\ played' = <<>>
  /\ origin' = 0
  /\ lastOp' = Op("prepare", TRUE, "")
  /\ UNCHANGED <<bridge, raceVars, pluginVars, clockVars, schedVars, graphVars,
                 stale, accepted, consumed, invoked>>

\* The inputs of the clip player tests at a small scale: clips of two and
\* four frames whose samples are multiples of four (so that every fade
\* factor of at most two frames gives a whole sample), the parameters set
\* and the block sizes rendered.
Clips == {<<>>, <<4, 8>>, <<4, 8, 12, 16>>}
ClipSettings ==
  {<<"startframe", -1>>, <<"startframe", 2>>,
   <<"endframe", 1>>, <<"endframe", 2>>, <<"endframe", 4>>, <<"endframe", 6>>,
   <<"fadeinframes", -1>>, <<"fadeinframes", 1>>, <<"fadeinframes", 2>>,
   <<"fadeoutframes", -1>>, <<"fadeoutframes", 1>>, <<"fadeoutframes", 2>>,
   <<"gain", 1>>, <<"gain", 2>>, <<"bufferframes", 4>>}
ClipBlocks == {0, 1, 2, 4}
ClipRates == {48000}

NextClip ==
  \/ \E frameCount \in ClipBlocks : RenderBlock(frameCount)
  \/ \E setting \in ClipSettings : PlayerSetParameter(setting[1], setting[2])
  \/ \E data \in Clips : SetClipBuffer(data)
  \/ PlayerReset
  \/ \E rate \in ClipRates : PlayerPrepare(rate)

SpecClip == Init /\ [][NextClip]_vars

(* ------------- schedule and dispatchDueEvents on two threads ---------- *)

\* A ring slot in the middle of "events_[write] = event": neither the event
\* it held nor the one being assigned.
Torn == [frame |-> 0, callback |-> [NoCallback EXCEPT !.id = -1]]

\* schedule(): "const auto write = writeIndex_.load(relaxed)", entered with
\* an event for frame whose callback is set.
ScheduleLoadWrite(frame) ==
  /\ producer.pc = "idle"
  /\ Len(accepted) < MaxSched
  /\ producer' = [pc |-> "loadRead", write |-> writeIndex, read |-> producer.read,
                  event |-> [frame |-> frame,
                             callback |-> [set |-> TRUE, id |-> Len(accepted) + 1,
                                           node |-> 0, value |-> 0]]]
  /\ UNCHANGED <<bridge, consumer, registrar, renderer, clipVars, pluginVars, clockVars,
                 schedVars, graphVars, histVars>>

\* schedule(): "const auto read = readIndex_.load(acquire)" and the test
\* "if (next == read) return false"
ScheduleLoadRead ==
  /\ producer.pc = "loadRead"
  /\ IF IsFull(increment(producer.write), readIndex)
     THEN /\ producer' = [producer EXCEPT !.pc = "idle", !.read = readIndex]
          /\ lastOp' = Op("schedule", FALSE, "")
     ELSE /\ producer' = [producer EXCEPT !.pc = "assign", !.read = readIndex]
          /\ UNCHANGED lastOp
  /\ UNCHANGED <<bridge, consumer, registrar, renderer, clipVars, pluginVars, clockVars,
                 schedVars, graphVars, stale, accepted, consumed, invoked>>

\* schedule(): "events_[write] = event" begins: the slot's members are being
\* assigned.
ScheduleAssignBegin ==
  /\ producer.pc = "assign"
  /\ events' = [events EXCEPT ![producer.write] = Torn]
  /\ producer' = [producer EXCEPT !.pc = "assigning"]
  /\ UNCHANGED <<bridge, consumer, registrar, renderer, clipVars, pluginVars, clockVars,
                 writeIndex, readIndex, graphVars, histVars>>

\* schedule(): "events_[write] = event" is complete.
ScheduleAssignEnd ==
  /\ producer.pc = "assigning"
  /\ events' = [events EXCEPT ![producer.write] = producer.event]
  /\ producer' = [producer EXCEPT !.pc = "storeWrite"]
  /\ UNCHANGED <<bridge, consumer, registrar, renderer, clipVars, pluginVars, clockVars,
                 writeIndex, readIndex, graphVars, histVars>>

\* schedule(): "writeIndex_.store(next, release); return true"
ScheduleStoreWrite ==
  /\ producer.pc = "storeWrite"
  /\ writeIndex' = increment(producer.write)
  /\ accepted' = Append(accepted, [frame |-> producer.event.frame, set |-> TRUE])
  /\ producer' = [producer EXCEPT !.pc = "idle"]
  /\ lastOp' = Op("schedule", TRUE, "")
  /\ UNCHANGED <<bridge, consumer, registrar, renderer, clipVars, pluginVars, clockVars,
                 events, readIndex, graphVars, stale, consumed, invoked>>

\* dispatchDueEvents(): "const auto now = clock_.frameTime()"
DispatchLoadNow ==
  /\ consumer.pc = "idle"
  /\ consumer' = [consumer EXCEPT !.pc = "loadRead", !.now = frameTime]
  /\ UNCHANGED <<bridge, producer, registrar, renderer, clipVars, pluginVars, clockVars,
                 schedVars, graphVars, histVars>>

\* dispatchDueEvents(): "const auto read = readIndex_.load(relaxed)"
DispatchLoadRead ==
  /\ consumer.pc = "loadRead"
  /\ consumer' = [consumer EXCEPT !.pc = "loadWrite", !.read = readIndex]
  /\ UNCHANGED <<bridge, producer, registrar, renderer, clipVars, pluginVars, clockVars,
                 schedVars, graphVars, histVars>>

\* dispatchDueEvents(): "const auto write = writeIndex_.load(acquire)" and
\* the test "if (read == write) break"
DispatchLoadWrite ==
  /\ consumer.pc = "loadWrite"
  /\ IF consumer.read = writeIndex
     THEN /\ consumer' = [consumer EXCEPT !.pc = "idle", !.write = writeIndex]
          /\ lastOp' = Op("dispatch", TRUE, "")
     ELSE /\ consumer' = [consumer EXCEPT !.pc = "peek", !.write = writeIndex]
          /\ UNCHANGED lastOp
  /\ UNCHANGED <<bridge, producer, registrar, renderer, clipVars, pluginVars, clockVars,
                 schedVars, graphVars, stale, accepted, consumed, invoked>>

\* dispatchDueEvents(): "const auto& event = events_[read];
\* if (event.frame > now) break"
DispatchPeek ==
  /\ consumer.pc = "peek"
  /\ IF NotYetDue(eventAt(consumer.read), consumer.now)
     THEN /\ consumer' = [consumer EXCEPT !.pc = "idle"]
          /\ lastOp' = Op("dispatch", TRUE, "")
     ELSE /\ consumer' = [consumer EXCEPT !.pc = "call"]
          /\ UNCHANGED lastOp
  /\ UNCHANGED <<bridge, producer, registrar, renderer, clipVars, pluginVars, clockVars,
                 schedVars, graphVars, stale, accepted, consumed, invoked>>

\* dispatchDueEvents(): "if (event.callback) event.callback()", run to its
\* end on the slot the reference names.
DispatchCall ==
  /\ consumer.pc = "call"
  /\ LET event == eventAt(consumer.read)
     IN invoked' = IF event.callback.set
                   THEN Append(invoked, [id    |-> event.callback.id,
                                         frame |-> event.frame,
                                         now   |-> consumer.now,
                                         node  |-> event.callback.node,
                                         value |-> event.callback.value,
                                         target |-> Target(event.callback)])
                   ELSE invoked
  /\ consumer' = [consumer EXCEPT !.pc = "storeRead"]
  /\ UNCHANGED <<bridge, producer, registrar, renderer, clipVars, pluginVars, clockVars,
                 schedVars, graphVars, stale, accepted, consumed, lastOp>>

\* dispatchDueEvents(): "readIndex_.store(increment(read), release)" and
\* the next round of the loop
DispatchStoreRead ==
  /\ consumer.pc = "storeRead"
  /\ readIndex' = increment(consumer.read)
  /\ consumed' = consumed + 1
  /\ consumer' = [consumer EXCEPT !.pc = "loadRead"]
  /\ UNCHANGED <<bridge, producer, registrar, renderer, clipVars, pluginVars, clockVars,
                 events, writeIndex, graphVars, stale, accepted, invoked, lastOp>>

\* The audio thread advances the clock between two dispatches, as render
\* does.
ClockTick == consumer.pc = "idle" /\ AdvanceBy(1)

NextRace ==
  \/ \E frame \in {0, MaxFrame} : ScheduleLoadWrite(frame)
  \/ ScheduleLoadRead
  \/ ScheduleAssignBegin
  \/ ScheduleAssignEnd
  \/ ScheduleStoreWrite
  \/ DispatchLoadNow
  \/ DispatchLoadRead
  \/ DispatchLoadWrite
  \/ DispatchPeek
  \/ DispatchCall
  \/ DispatchStoreRead
  \/ ClockTick

SpecRace == Init /\ [][NextRace]_vars

(* --------- SetRenderCallback and Render on two threads ---------------- *)

\* SetRenderCallback(): "gRenderUserData.store(userData, release)"
SetStoreUserData(callback, userData) ==
  /\ registrar.pc = "idle"
  /\ gRenderUserData' = userData
  /\ registrar' = [pc |-> "storeCallback", callback |-> callback,
                   userData |-> userData]
  /\ UNCHANGED <<bridge, gRenderCallback, nodeVars, producer, consumer, renderer, clipVars,
                 clockVars, schedVars, graphVars, histVars>>

\* SetRenderCallback(): "gRenderCallback.store(callback, release)"
SetStoreCallback ==
  /\ registrar.pc = "storeCallback"
  /\ gRenderCallback' = registrar.callback
  /\ registrar' = [registrar EXCEPT !.pc = "idle"]
  /\ lastOp' = Op("SetRenderCallback", TRUE, "")
  /\ UNCHANGED <<bridge, gRenderUserData, nodeVars, producer, consumer, renderer, clipVars,
                 clockVars, schedVars, graphVars, stale, accepted, consumed, invoked>>

\* The record of a PluginHostBridge::Render call: the callback invoked with
\* its user data, if any, and the optional result.
BridgeOp(requests, has_value, result) ==
  [Op("Render", TRUE, "") EXCEPT
     !.requests = requests,
     !.host = [has_value |-> has_value, success |-> result.success,
               pluginBypassed |-> result.pluginBypassed]]

\* Render(): "const auto callback = gRenderCallback.load(acquire);
\* if (!callback) return std::nullopt"
RenderLoadCallback ==
  /\ renderer.pc = "idle"
  /\ IF gRenderCallback = nullptr
     THEN /\ renderer' = [renderer EXCEPT !.callback = gRenderCallback]
          /\ lastOp' = BridgeOp(<<>>, FALSE, [success |-> FALSE,
                                              pluginBypassed |-> FALSE])
     ELSE /\ renderer' = [renderer EXCEPT !.pc = "loadUserData",
                                          !.callback = gRenderCallback]
          /\ UNCHANGED lastOp
  /\ UNCHANGED <<bridge, pluginVars, producer, consumer, registrar, clipVars,
                 clockVars, schedVars, graphVars, stale, accepted, consumed, invoked>>

\* Render(): "const auto userData = gRenderUserData.load(acquire)"
RenderLoadUserData ==
  /\ renderer.pc = "loadUserData"
  /\ renderer' = [renderer EXCEPT !.pc = "call", !.userData = gRenderUserData]
  /\ UNCHANGED <<bridge, pluginVars, producer, consumer, registrar, clipVars,
                 clockVars, schedVars, graphVars, histVars>>

\* Render(): "try { return callback(request, userData); } catch (...) {
\* return PluginRenderResult{false, false}; }" for the request of a
\* one-channel view of input samples
RenderCall(input) ==
  /\ renderer.pc = "call"
  /\ LET request == PluginRenderRequest(View(1, 1, input))
         r == Call(renderer.callback, request, renderer.userData)
     IN lastOp' = BridgeOp(<<[callback |-> renderer.callback,
                              userData |-> renderer.userData]>>, TRUE, Caught(r))
  /\ renderer' = [renderer EXCEPT !.pc = "idle"]
  /\ UNCHANGED <<bridge, pluginVars, producer, consumer, registrar, clipVars,
                 clockVars, schedVars, graphVars, stale, accepted, consumed, invoked>>

\* The registrations the control thread makes: two callbacks, each with its
\* own user data, and ClearRenderCallback().
SlotRegistrations == {<<"gain", 1>>, <<"fail", 2>>, <<nullptr, 0>>}

NextSlot ==
  \/ \E registration \in SlotRegistrations :
       SetStoreUserData(registration[1], registration[2])
  \/ SetStoreCallback
  \/ RenderLoadCallback
  \/ RenderLoadUserData
  \/ \E input \in InputSamples : RenderCall(input)

SpecSlot == Init /\ [][NextSlot]_vars

(* ---------------- AudioEngineBridge on two threads -------------------- *)

\* The most xruns counted before the engine is initialized again: render is
\* not called any more once xruns_ has reached it.
MaxXruns == 2

\* Everything of the program but the bridge's own members.
engineVars == <<clockVars, schedVars, graphVars, histVars, pluginVars, clipVars, raceVars>>

\* "std::unique_lock<std::mutex> lock(mutex_, std::try_to_lock)":
\* lock.owns_lock() for a mutex that is held or not.
owns_lock_always(held) == TRUE
owns_lock(held) == ~held

\* A control-plane call: "std::lock_guard<std::mutex> lock(mutex_)" returns
\* once the mutex is free.
ControlLock ==
  /\ bridge.control = "idle"
  /\ ~bridge.held
  /\ bridge' = [bridge EXCEPT !.held = TRUE, !.control = "in"]
  /\ lastOp' = Op("lock_guard", TRUE, "")
  /\ UNCHANGED <<clockVars, schedVars, graphVars, stale, accepted, consumed, invoked,
                 pluginVars, clipVars, raceVars>>

\* The control thread owns the lock and has not made its call yet.
InControlCall == bridge.control = "in" /\ lastOp.op = "lock_guard"

\* The members of a SceneGraph as constructed, for the history as well.
NewGraph ==
  /\ frameTime' = 0
  /\ framesPerBuffer' = 1
  /\ events' = [i \in 0..(capacity - 1) |-> DefaultEvent]
  /\ writeIndex' = 0
  /\ readIndex' = 0
  /\ nodes' = EmptyMap
  /\ nodeBuffers' = EmptyMap
  /\ connections' = <<>>
  /\ renderOrder' = <<>>
  /\ inboundEdges' = EmptyMap
  /\ outputSources' = <<>>
  /\ nodeState' = EmptyMap
  /\ stale' = {}
  /\ accepted' = <<>>
  /\ consumed' = 0
  /\ invoked' = <<>>

\* void AudioEngineBridge::initialize(env, sampleRate, framesPerBuffer), and
\* the end of its scope
Initialize ==
  /\ InControlCall
  /\ NewGraph
  /\ bridge' = [bridge EXCEPT !.graph = TRUE, !.xruns = 0,
                              !.held = FALSE, !.control = "idle"]
  /\ lastOp' = Op("initialize", TRUE, "")
  /\ UNCHANGED <<pluginVars, clipVars, raceVars>>

\* void AudioEngineBridge::shutdown(), and the end of its scope
Shutdown ==
  /\ InControlCall
  /\ NewGraph
  /\ bridge' = [bridge EXCEPT !.graph = FALSE, !.xruns = 0,
                              !.held = FALSE, !.control = "idle"]
  /\ lastOp' = Op("shutdown", TRUE, "")
  /\ UNCHANGED <<pluginVars, clipVars, raceVars>>

\* addNode, removeNode, connect, disconnect and
\* scheduleParameterAutomation of the bridge: "if (!graph_) return"
WithoutGraph ==
  /\ InControlCall
  /\ ~bridge.graph
  /\ lastOp' = Op("no graph", FALSE, "")
  /\ UNCHANGED <<bridge, clockVars, schedVars, graphVars, stale, accepted, consumed,
                 invoked, pluginVars, clipVars, raceVars>>

\* bool AudioEngineBridge::addNode(id, node): "graph_->addNode(id, node)"
BridgeAddNode(id, node) == InControlCall /\ bridge.graph /\ AddNode(id, node)

\* void AudioEngineBridge::removeNode(id): "graph_->removeNode(id)"
BridgeRemoveNode(id) == InControlCall /\ bridge.graph /\ RemoveNode(id)

\* bool AudioEngineBridge::connect(source, destination)
BridgeConnect(source, destination) ==
  InControlCall /\ bridge.graph /\ Connect(source, destination)

\* void AudioEngineBridge::disconnect(source, destination)
BridgeDisconnect(source, destination) ==
  InControlCall /\ bridge.graph /\ Disconnect(source, destination)

\* void AudioEngineBridge::scheduleParameterAutomation(nodeId, parameter,
\* frame, value): the exception of scheduleAutomation is caught and logged.
BridgeScheduleAutomation(nodeId, frame, value) ==
  InControlCall /\ bridge.graph /\ ScheduleAutomation(nodeId, frame, value)

\* The end of the scope of a control-plane call: lock_guard releases mutex_.
ControlUnlock ==
  /\ bridge.control = "in"
  /\ lastOp.op # "lock_guard"
  /\ bridge' = [bridge EXCEPT !.held = FALSE, !.control = "idle"]
  /\ UNCHANGED engineVars

\* void AudioEngineBridge::render(outputs, channelCount, frameCount) on a
\* view whose samples hold input, up to "if (!lock.owns_lock()) {
\* view.fill(0.0F);": the try-lock and the fill of a render that did not get
\* the lock.
RenderTryLock(input) ==
  /\ bridge.audio = "idle"
  /\ bridge.xruns < MaxXruns
  /\ IF owns_lock(bridge.held)
     THEN /\ bridge' = [bridge EXCEPT !.held = TRUE, !.audio = "in", !.out = input]
          /\ lastOp' = Op("try_to_lock", TRUE, "")
     ELSE /\ bridge' = [bridge EXCEPT !.audio = "xrun",
                                      !.out = fill(View(1, 1, input), 0).sample]
          /\ UNCHANGED lastOp
  /\ UNCHANGED <<clockVars, schedVars, graphVars, stale, accepted, consumed, invoked,
                 pluginVars, clipVars, raceVars>>

\* render(): "xruns_.fetch_add(1); lastRenderDurationMicros_.store(0.0);
\* return;" of a render that did not get the lock
RenderXrun ==
  /\ bridge.audio = "xrun"
  /\ bridge' = [bridge EXCEPT !.xruns = @ + 1, !.audio = "idle"]
  /\ UNCHANGED engineVars

\* The audio thread owns the lock and has not rendered yet.
InRenderCall == bridge.audio = "in" /\ lastOp.op = "try_to_lock"

\* render(): "if (!graph_) { view.fill(0.0F); ... return; }"
RenderWithoutGraph ==
  /\ InRenderCall
  /\ ~bridge.graph
  /\ bridge' = [bridge EXCEPT !.held = FALSE, !.audio = "idle",
                              !.out = fill(View(1, 1, bridge.out), 0).sample]
  /\ lastOp' = Op("no graph", FALSE, "")
  /\ UNCHANGED <<clockVars, schedVars, graphVars, stale, accepted, consumed, invoked,
                 pluginVars, clipVars, raceVars>>

\* render(): "graph_->render(view)" on a view of one channel and one frame
BridgeRender == InRenderCall /\ bridge.graph /\ Render(1, 1, bridge.out)

\* render(): the return after graph_->render, unique_lock releases mutex_.
RenderUnlock ==
  /\ bridge.audio = "in"
  /\ lastOp.op # "try_to_lock"
  /\ bridge' = [bridge EXCEPT !.held = FALSE, !.audio = "idle", !.out = lastOp.out]
  /\ UNCHANGED engineVars

\* The node the control thread adds, connects and automates.
BridgeIds == {"a"}

NextBridge ==
  \/ ControlLock
  \/ Initialize
  \/ Shutdown
  \/ WithoutGraph
  \/ \E id \in BridgeIds : BridgeAddNode(id, NodeAddr[id])
  \/ \E id \in BridgeIds : BridgeRemoveNode(id)
  \/ \E id \in BridgeIds : BridgeConnect(id, kOutputBusId)
  \/ \E id \in BridgeIds : BridgeDisconnect(id, kOutputBusId)
  \/ \E id \in BridgeIds, value \in AutoValues : BridgeScheduleAutomation(id, 0, value)
  \/ ControlUnlock
  \/ \E input \in InputSamples : RenderTryLock(input)
  \/ RenderXrun
  \/ RenderWithoutGraph
  \/ BridgeRender
  \/ RenderUnlock

SpecBridge == Init /\ [][NextBridge]_vars

(* -------------------- claims about the scheduler ---------------------- *)

NonDecreasing(seq) ==
  \A i, j \in DOMAIN seq : i < j => seq[i].frame <= seq[j].frame

\* Number of accepted events that have not been popped yet.
InFlight == Len(accepted) - consumed

\* C1: after any sequence of schedule and dispatchDueEvents calls at most
\* MaxEvents accepted events are not yet dispatched, and a schedule call made
\* while MaxEvents events are pending returns false and leaves the read index,
\* the write index and every slot unchanged.
C1_SchedulerBound ==
  /\ [](InFlight <= MaxEvents)
  /\ [][(lastOp'.op = "schedule" /\ InFlight = MaxEvents)
          => (~lastOp'.ok /\ UNCHANGED <<readIndex, writeIndex, events>>)]_vars

C1_Witness ==
  lastOp.op = "schedule" /\ ~lastOp.ok /\ InFlight = MaxEvents

\* C2: no callback is invoked by a dispatchDueEvents call whose clock reading
\* (taken at the start of the call) is smaller than the event's frame.
C2_NeverEarly ==
  \A i \in DOMAIN invoked : invoked[i].frame <= invoked[i].now

\* A delayed event was invoked once the clock had reached its frame while
\* another one is still held back.
C2_Witness ==
  /\ \E i \in DOMAIN invoked : invoked[i].frame > 0
  /\ \E i \in DOMAIN Pending : Pending[i].callback.set /\ Pending[i].frame > frameTime

\* C3 as claimed: when a dispatchDueEvents call returns, no accepted event
\* with a callback whose frame has been reached is still waiting, whatever
\* the order of the schedule calls.
C3_FiresAtFirstDueDispatch ==
  lastOp.op = "dispatch" =>
    \A i \in DOMAIN Pending :
      Pending[i].callback.set => Pending[i].frame > frameTime

\* C3 as amended: events are popped strictly in acceptance order and a
\* dispatchDueEvents call stops at the first waiting event whose frame lies
\* in the future, so when the call returns every event still waiting has
\* itself, or an event accepted before it, a frame greater than the clock
\* reading; the popped events are exactly the oldest accepted ones and each of
\* them that carries a callback has been invoked.
C3_FiresOnceUnblocked ==
  /\ lastOp.op = "dispatch" =>
       \A i \in DOMAIN Pending :
         \E j \in 1..i : Pending[j].frame > frameTime
  /\ consumed + Len(Pending) = Len(accepted)
  /\ \A i \in DOMAIN Pending : Pending[i].frame = accepted[consumed + i].frame
  /\ {invoked[i].id : i \in DOMAIN invoked}
       = {k \in 1..consumed : accepted[k].set}

\* A dispatch fired an event exactly on its frame while a later one waits.
C3_Witness ==
  /\ lastOp.op = "dispatch"
  /\ frameTime > 0
  /\ \E i \in DOMAIN invoked :
       invoked[i].now = frameTime /\ invoked[i].frame = frameTime
  /\ Len(Pending) > 0

\* C4 as claimed: the frames of the invoked events, in invocation order, are
\* non-decreasing for every sequence of schedule calls.
C4_NonDecreasingFrames == NonDecreasing(invoked)

\* C4 as amended: events are invoked in the order in which they were
\* accepted; when the schedule calls were made in non-decreasing frame order
\* the invoked frames are non-decreasing.
C4_AcceptanceOrder ==
  /\ \A i, j \in DOMAIN invoked : i < j => invoked[i].id < invoked[j].id
  /\ \A i \in DOMAIN invoked : invoked[i].frame = accepted[invoked[i].id].frame
  /\ NonDecreasing(accepted) => NonDecreasing(invoked)

C4_Witness ==
  /\ NonDecreasing(accepted)
  /\ Len(invoked) >= 3
  /\ invoked[1].frame < invoked[2].frame
  /\ invoked[2].frame < invoked[3].frame

\* C5: the callback of each accepted event is invoked at most once, also
\* after the ring indices have wrapped around and its slot has been reused.
C5_AtMostOnce ==
  \A i, j \in DOMAIN invoked : i # j => invoked[i].id # invoked[j].id

\* An event stored in a reused slot (index wrapped) has been invoked.
C5_Witness ==
  /\ \E i \in DOMAIN invoked : invoked[i].id > capacity
  /\ Len(invoked) > capacity

(* -------------------- claims about the scene graph -------------------- *)

\* C6 as claimed: every render call, whatever the shape of the output view,
\* increases frameTime by exactly the view's frame count.
C6_EveryRenderAdvances ==
  [][lastOp'.op = "render" => frameTime' = frameTime + lastOp'.frames]_vars

\* C6 as amended: a render call with a view of at most kMaxChannels channels
\* and kMaxFrames frames increases frameTime by exactly the view's frame
\* count; a render call with a larger view leaves frameTime unchanged; and
\* no call ever decreases frameTime.
C6_ClockAdvance ==
  [][/\ frameTime' >= frameTime
     /\ lastOp'.op = "render" =>
          frameTime' = frameTime +
            (IF lastOp'.channels > kMaxChannels \/ lastOp'.frames > kMaxFrames
             THEN 0 ELSE lastOp'.frames)]_vars

\* An oversized render came after two renders of one frame each.
C6_Witness ==
  /\ lastOp.op = "render"
  /\ lastOp.channels > kMaxChannels
  /\ frameTime = 2
  /\ framesPerBuffer = 1

\* C7: an automation whose node is removed before it is dispatched is
\* dropped: no callback is ever invoked through the address of a destroyed
\* node (freed memory, or another node placed at that address).
C7_RemovedNodeEventDropped ==
  \A i \in DOMAIN invoked : invoked[i].target = "node"

\* C8: every stored connection has a present node as source and the output
\* bus or a present node as destination.
C8_ConnectionsValid ==
  \A i \in DOMAIN connections :
    /\ connections[i].source \in DOMAIN nodes
    /\ \/ connections[i].destination = kOutputBusId
       \/ connections[i].destination \in DOMAIN nodes

\* removeNode erased a connection of the removed node and kept another one.
C8_Witness ==
  /\ lastOp.op = "removeNode"
  /\ lastOp.n > 0
  /\ Len(connections) > 0
  /\ connections[1].destination \in DOMAIN nodes

\* There is a stored connection u -> v between nodes.
Edge(u, v) ==
  v # kOutputBusId /\
  \E i \in DOMAIN connections :
    connections[i].source = u /\ connections[i].destination = v

RECURSIVE PathUpTo(_, _, _)
\* There is a path of at most k node-to-node connections from u to v.
PathUpTo(u, v, k) ==
  \/ Edge(u, v)
  \/ k > 1 /\ \E w \in DOMAIN nodes : Edge(u, w) /\ PathUpTo(w, v, k - 1)

Acyclic ==
  \A u \in DOMAIN nodes : ~PathUpTo(u, u, Cardinality(DOMAIN nodes))

Position(seq, x) == CHOOSE i \in DOMAIN seq : seq[i] = x

\* C9: for every acyclic graph, renderOrder contains every present node
\* exactly once and, for every connection u -> v with v not the output bus,
\* u comes before v.
C9_TopologicalOrder ==
  Acyclic =>
    /\ Len(renderOrder) = Cardinality(DOMAIN nodes)
    /\ Range(renderOrder) = DOMAIN nodes
    /\ \A u, v \in DOMAIN nodes :
         Edge(u, v) => Position(renderOrder, u) < Position(renderOrder, v)

\* A chain u -> v -> w of three nodes has been ordered.
C9_Witness ==
  /\ Acyclic
  /\ Len(renderOrder) = 3
  /\ Edge(renderOrder[1], renderOrder[2])
  /\ Edge(renderOrder[2], renderOrder[3])

\* The sources of the connections that target the output bus.
BusSources ==
  {connections[i].source :
     i \in {k \in DOMAIN connections : connections[k].destination = kOutputBusId}}

\* C10: if a connection targets the output bus, outputSources is exactly the
\* set of sources of such connections, each once; otherwise it is exactly the
\* set of present nodes that are the source of no node-to-node connection.
C10_OutputSources ==
  LET expected ==
        IF BusSources # {} THEN BusSources
        ELSE {id \in DOMAIN nodes : ~\E v \in DOMAIN nodes : Edge(id, v)}
  IN /\ Range(outputSources) = expected
     /\ Len(outputSources) = Cardinality(expected)

\* Without output-bus connections, the sinks of a graph with an edge.
C10_Witness ==
  /\ BusSources = {}
  /\ Cardinality(DOMAIN nodes) = 3
  /\ Len(outputSources) = 2
  /\ \E u, v \in DOMAIN nodes : u # v /\ Edge(u, v)

(* ----------------- claims about the scene graph's calls --------------- *)

\* C11: a render call leaves the node set, the connection list, renderOrder,
\* inboundEdges and outputSources exactly as they were, for every output view
\* (in range, oversized, of 0 frames) and whatever automation callbacks are
\* dispatched during it.
C11_RenderPurity ==
  [][lastOp'.op = "render" =>
       UNCHANGED <<nodes, connections, renderOrder, inboundEdges, outputSources>>]_vars

\* A render dispatched an automation and processed a node that has no
\* inbound edge.
C11_Witness ==
  /\ lastOp.op = "render"
  /\ lastOp.processed # <<>>
  /\ \E id \in DOMAIN nodeState : nodeState[id].gain # GainNode.gain
  /\ \A id \in DOMAIN nodes : id \notin DOMAIN inboundEdges

\* C12: addNode(id, node) with an id that is already present returns false
\* and leaves the node stored under id, the node set, the connection list and
\* the topology cache unchanged; with an unused id and a non-null node it
\* returns true and the node set grows by exactly id.
C12_AddNodeContract ==
  [][\A id \in NodeIds : \A node \in {NodeAddr[id], SpareAddr} :
       (lastOp'.op = "addNode" /\ AddNode(id, node)) =>
         IF id \in DOMAIN nodes
         THEN /\ ~lastOp'.ok
              /\ UNCHANGED <<nodes, connections, renderOrder, inboundEdges, outputSources>>
         ELSE /\ lastOp'.ok
              /\ DOMAIN nodes' = DOMAIN nodes \cup {id}
              /\ \A x \in DOMAIN nodes : nodes'[x] = nodes[x]]_vars

\* A second node offered under a taken id of a connected graph was refused.
C12_Witness ==
  /\ lastOp.op = "addNode"
  /\ ~lastOp.ok
  /\ Len(connections) > 0
  /\ Cardinality(DOMAIN nodes) > 1

\* The conditions under which C13 says connect returns false.
ConnectRefused(source, destination) ==
  \/ source \notin DOMAIN nodes
  \/ destination # kOutputBusId /\ destination \notin DOMAIN nodes
  \/ \E i \in DOMAIN connections :
       connections[i] = [source |-> source, destination |-> destination]

\* C13: connect(source, destination) returns false exactly when source is not
\* a present node, or destination is neither the output bus nor a present
\* node, or the pair is already connected; on false the connection list and
\* the topology cache are unchanged; on true exactly the connection
\* (source, destination) is appended; the list never holds a pair twice.
C13_ConnectContract ==
  /\ [](\A i, j \in DOMAIN connections : i # j => connections[i] # connections[j])
  /\ [][\A source \in NodeIds, destination \in Destinations :
          (lastOp'.op = "connect" /\ Connect(source, destination)) =>
            IF ConnectRefused(source, destination)
            THEN /\ ~lastOp'.ok
                 /\ UNCHANGED <<connections, renderOrder, inboundEdges, outputSources>>
            ELSE /\ lastOp'.ok
                 /\ connections' = Append(connections,
                      [source |-> source, destination |-> destination])]_vars

\* Every node is present, so the refused connect repeated a stored pair.
C13_Witness ==
  /\ lastOp.op = "connect"
  /\ ~lastOp.ok
  /\ DOMAIN nodes = NodeIds
  /\ Len(connections) > 0

\* C14: removeNode(id) with an id that is not a present node takes no action:
\* the node set and the connection list are unchanged, for every id string,
\* the reserved output-bus id included.
C14_AbsentRemoveNoAction ==
  [][\A id \in RemoveIds :
       (lastOp'.op = "removeNode" /\ id \notin DOMAIN nodes /\ RemoveNode(id)) =>
         UNCHANGED <<nodes, connections>>]_vars

RECURSIVE WithoutNode(_, _)
\* The connections of conns that do not touch id, in their order.
WithoutNode(conns, id) ==
  IF conns = <<>> THEN <<>>
  ELSE IF Head(conns).source = id \/ Head(conns).destination = id
       THEN WithoutNode(Tail(conns), id)
       ELSE <<Head(conns)>> \o WithoutNode(Tail(conns), id)

\* C15: removeNode(id) for a present id removes exactly that node, its
\* scratch buffer and every connection whose source or destination is id;
\* all other nodes and connections are kept in their relative order, and
\* afterwards id occurs in none of renderOrder, inboundEdges (as key or as
\* source) and outputSources.
C15_RemoveNodeContract ==
  [][\A id \in RemoveIds :
       (lastOp'.op = "removeNode" /\ id \in DOMAIN nodes /\ RemoveNode(id)) =>
         /\ DOMAIN nodes' = DOMAIN nodes \ {id}
         /\ \A x \in DOMAIN nodes' : nodes'[x] = nodes[x]
         /\ DOMAIN nodeBuffers' = DOMAIN nodeBuffers \ {id}
         /\ \A x \in DOMAIN nodeBuffers' : nodeBuffers'[x] = nodeBuffers[x]
         /\ connections' = WithoutNode(connections, id)
         /\ id \notin Range(renderOrder')
         /\ id \notin DOMAIN inboundEdges'
         /\ \A d \in DOMAIN inboundEdges' : id \notin Range(inboundEdges'[d])
         /\ id \notin Range(outputSources')]_vars

\* A node with one connection was removed and a connection to the output
\* bus was kept (so the id removed was not the reserved one).
C15_Witness ==
  /\ lastOp.op = "removeNode"
  /\ lastOp.n = 1
  /\ Len(connections) = 1
  /\ connections[1].destination = kOutputBusId

\* C16: scheduleAutomation(nodeId, cb, frame) fails with a node-not-found
\* error when nodeId is not a present node and with a distinct scheduler-full
\* error when MaxEvents events are already pending; in both cases no event is
\* enqueued and the queue is unchanged; otherwise exactly one event with that
\* frame is enqueued.
C16_ScheduleAutomationContract ==
  [][\A nodeId \in RenderIds, frame \in AutoFrames, value \in AutoValues :
       (lastOp'.op = "scheduleAutomation" /\ ScheduleAutomation(nodeId, frame, value)) =>
         IF nodeId \notin DOMAIN nodes
         THEN /\ ~lastOp'.ok
              /\ lastOp'.err = "Node not found"
              /\ UNCHANGED <<events, writeIndex, readIndex>>
         ELSE IF Len(Pending) = MaxEvents
         THEN /\ ~lastOp'.ok
              /\ lastOp'.err = "Scheduler queue is full"
              /\ lastOp'.err # "Node not found"
              /\ UNCHANGED <<events, writeIndex, readIndex>>
         ELSE /\ lastOp'.ok
              /\ Len(Pending') = Len(Pending) + 1
              /\ SubSeq(Pending', 1, Len(Pending)) = Pending
              /\ Pending'[Len(Pending')].frame = frame
              /\ Pending'[Len(Pending')].callback.set]_vars

\* The queue of a graph with a node is full and a further automation was
\* refused.
C16_Witness ==
  /\ lastOp.op = "scheduleAutomation"
  /\ lastOp.err = "Scheduler queue is full"
  /\ Len(Pending) = MaxEvents
  /\ DOMAIN nodes # {}

\* C17: render called with an output view of more than kMaxChannels channels
\* or more than kMaxFrames frames sets every output sample to 0 and returns
\* without error, without dispatching any scheduled event, without calling
\* process on any node and without changing any node or scratch buffer.
C17_OversizedRender ==
  [][(/\ lastOp'.op = "render"
      /\ (lastOp'.channels > kMaxChannels \/ lastOp'.frames > kMaxFrames)) =>
       /\ lastOp'.ok
       /\ lastOp'.out = 0
       /\ lastOp'.processed = <<>>
       /\ UNCHANGED <<readIndex, invoked, consumed, nodeState, nodeBuffers>>]_vars

\* An oversized render was made while a due automation of a present node
\* was waiting.
C17_Witness ==
  /\ lastOp.op = "render"
  /\ lastOp.frames > kMaxFrames
  /\ DOMAIN nodes # {}
  /\ Len(Pending) > 0
  /\ Pending[1].frame <= frameTime

\* C18: for every output view of at most kMaxChannels channels and kMaxFrames
\* frames, a view of 0 frames or 0 channels included, and every graph state,
\* render completes without surfacing an error to its caller.
C18_RenderNeverFails ==
  (/\ lastOp.op = "render"
   /\ lastOp.channels <= kMaxChannels
   /\ lastOp.frames <= kMaxFrames) => lastOp.ok

(* -------------------- claims about the plugin node -------------------- *)

\* C19: while the plugin node's bypass is enabled, no process call on it
\* invokes the host callback and every process call leaves the view's samples
\* unchanged; once bypass is cleared, a process call on a view with samples,
\* made with a host instance id and a registered callback, invokes the host
\* callback again.
C19_BypassSkipsHost ==
  [][lastOp'.op = "process" =>
       /\ bypassed =>
            (lastOp'.requests = <<>> /\ lastOp'.out = lastOp'.input)
       /\ (/\ ~bypassed
           /\ hostInstanceId # ""
           /\ gRenderCallback # nullptr
           /\ lastOp'.channels > 0
           /\ lastOp'.frames > 0) => Len(lastOp'.requests) = 1]_vars

\* A bypassed node with a host instance id and a registered, working
\* callback processed a view with samples.
C19_Witness ==
  /\ lastOp.op = "process"
  /\ bypassed
  /\ hostInstanceId # ""
  /\ gRenderCallback = "gain"
  /\ gRenderUserData # 0
  /\ lastOp.channels > 0
  /\ lastOp.frames > 0
  /\ lastOp.input # 0

\* C20: process leaves the view unchanged and invokes no host callback when
\* no callback is registered in the host slot, and also when the node's
\* host instance id is empty even though a callback is registered.
C20_HostAbsent ==
  [][(lastOp'.op = "process" /\ (gRenderCallback = nullptr \/ hostInstanceId = "")) =>
       (lastOp'.requests = <<>> /\ lastOp'.out = lastOp'.input)]_vars

\* A node with an empty host instance id, not bypassed, processed a view
\* with samples while a working callback was registered.
C20_Witness ==
  /\ lastOp.op = "process"
  /\ ~bypassed
  /\ hostInstanceId = ""
  /\ gRenderCallback = "gain"
  /\ gRenderUserData # 0
  /\ lastOp.channels > 0
  /\ lastOp.frames > 0
  /\ lastOp.input # 0

\* C21: when the plugin node is not bypassed, has a non-empty host instance
\* id, a callback is registered and the view has at least one channel and one
\* frame, a process call invokes the host callback exactly once, with a
\* request carrying the node's host instance id, its capability flags, its
\* sample rate and bypassed = false, and the view afterwards holds what the
\* callback wrote.
C21_ProcessInvokesHost ==
  [][(/\ lastOp'.op = "process"
      /\ ~bypassed
      /\ hostInstanceId # ""
      /\ gRenderCallback # nullptr
      /\ lastOp'.channels > 0
      /\ lastOp'.frames > 0) =>
       LET view0 == View(lastOp'.channels, lastOp'.frames, lastOp'.input)
           written == Call(gRenderCallback, [audioBuffer |-> view0], gRenderUserData)
       IN /\ Len(lastOp'.requests) = 1
          /\ lastOp'.requests[1].hostInstanceId = hostInstanceId
          /\ lastOp'.requests[1].capabilities = capabilities
          /\ lastOp'.requests[1].sampleRate = sampleRate
          /\ lastOp'.requests[1].bypassed = FALSE
          /\ lastOp'.requests[1].userData = gRenderUserData
          /\ lastOp'.out = written.buffer.sample
          /\ (gRenderCallback = "gain" /\ gRenderUserData # 0) =>
                lastOp'.out = lastOp'.input * RenderContext.gain]_vars

\* A node whose host instance id was set through the hostInstanceId
\* parameter and that was prepared at 44100 Hz had its view scaled by the
\* registered gain callback.
C21_Witness ==
  /\ lastOp.op = "process"
  /\ ~bypassed
  /\ hostInstanceId = "42"
  /\ sampleRate = 44100
  /\ gRenderCallback = "gain"
  /\ gRenderUserData # 0
  /\ Len(lastOp.requests) = 1
  /\ lastOp.requests[1].hostInstanceId = "42"
  /\ lastOp.requests[1].sampleRate = 44100
  /\ lastOp.input # 0
  /\ lastOp.out = lastOp.input * RenderContext.gain

\* C22: when the registered host callback throws, PluginHostBridge::Render
\* returns {success = false, pluginBypassed = false} instead of propagating;
\* when the result has success = false, process returns normally and itself
\* writes nothing to the view (the view holds what the callback left in it).
C22_ThrowingCallback ==
  [][(lastOp'.op = "process" /\ Len(lastOp'.requests) = 1) =>
       LET view0 == View(lastOp'.channels, lastOp'.frames, lastOp'.input)
           called == Call(gRenderCallback, [audioBuffer |-> view0], gRenderUserData)
       IN /\ called.thrown =>
               lastOp'.host = [has_value |-> TRUE, success |-> FALSE,
                               pluginBypassed |-> FALSE]
          /\ ~lastOp'.host.success =>
               /\ lastOp'.ok
               /\ lastOp'.err = ""
               /\ lastOp'.out = called.buffer.sample]_vars

\* A callback that changed the samples and then threw was called by process.
C22_Witness ==
  /\ lastOp.op = "process"
  /\ gRenderCallback = "scribble"
  /\ Len(lastOp.requests) = 1
  /\ lastOp.host.has_value
  /\ ~lastOp.host.success
  /\ lastOp.input # 0
  /\ lastOp.out = lastOp.input * RenderContext.gain
  /\ lastOp.ok

(* -------------------- claims about the clip player -------------------- *)

\* The end of playback as the specification states it:
\* min(max(start_frame, end_frame), start_frame + clip.frame_count).
StatedEnd ==
  LET later == IF player.endFrame > player.startFrame
               THEN player.endFrame ELSE player.startFrame
      limit == player.startFrame + Len(player.clipBuffer)
  IN IF later < limit THEN later ELSE limit

\* C24: for a clip player with a clip, gain g and no fades, the sample written
\* at node frame a (the frames processed since the last prepare/reset) is
\* clip[a - start_frame] * g for every a with start_frame <= a <
\* effective_end, and the concatenated output (silent elsewhere, on cleared
\* views) is the same however the frames are split into process blocks.
C24_ClipPlayback ==
  (/\ player.clipBuffer # <<>>
   /\ player.fadeInFrames = 0
   /\ player.fadeOutFrames = 0) =>
    \A k \in 1..Len(played) :
      LET a == origin + k - 1
      IN played[k] = IF player.startFrame <= a /\ a < StatedEnd
                     THEN player.clipBuffer[a - player.startFrame + 1] * player.gain
                     ELSE 0

\* The four-frame clip, started at frame 2 with gain 2 and no fades, was
\* played in blocks of 4, 1 and 1 frames.
C24_Witness ==
  /\ lastOp.op = "RenderBlock"
  /\ lastOp.frames = 1
  /\ origin = 0
  /\ player.fadeInFrames = 0
  /\ player.fadeOutFrames = 0
  /\ played = <<0, 0, 8, 16, 24, 32>>

\* The fade envelope on the output since the last rewind, with the fade-in
\* factor at frame i being (i + first) / F.
FadeEnvelope(first) ==
  LET N == player.endFrame
      F == player.fadeInFrames
      g == player.gain
  IN (/\ origin = 0
      /\ player.startFrame = 0
      /\ player.fadeOutFrames = F
      /\ Len(player.clipBuffer) >= N
      /\ 2 * F <= N) =>
       \A k \in 1..Len(played) :
         LET i == k - 1
             sample == player.clipBuffer[k]
         IN /\ i < F => played[k] * F = sample * g * (i + first)
            /\ (F <= i /\ i < N - F) => played[k] = sample * g
            /\ (N - F <= i /\ i < N) => played[k] * F = sample * g * (N - i)

\* C25 as stated: with start = 0, end = N, fade_in = fade_out = F and gain g
\* on a clip of at least N frames, the amplitude applied at frame i is
\* g * i / F for i in [0, F), g for i in [F, N - F) and g * (N - i) / F for
\* i in [N - F, N).
C25_FadeEnvelopeAsStated == FadeEnvelope(0)

\* C25: with start = 0, end = N, fade_in = fade_out = F, 2F <= N and gain g
\* on a clip of at least N frames, the amplitude applied at frame i is
\* g * (i + 1) / F for i in [0, F), g for i in [F, N - F) and
\* g * (N - i) / F for i in [N - F, N).
C25_FadeEnvelope == FadeEnvelope(1)

\* The four-frame clip with end = 4, both fades of 2 frames and gain 2 was
\* played to its end: half amplitude on the first and the last frame.
C25_Witness ==
  /\ origin = 0
  /\ player.startFrame = 0
  /\ player.endFrame = 4
  /\ player.fadeInFrames = 2
  /\ player.fadeOutFrames = 2
  /\ player.gain = 2
  /\ played = <<4, 16, 24, 16>>

\* C26: after reset() the blocks produced by the following process calls
\* equal the blocks the node produced from its previous prepare/reset with
\* the same parameters and block sizes; reset rewinds processed_frames to 0
\* and changes no parameter and no clip.
C26_ResetReplays ==
  /\ [](origin = 0 =>
          \A k \in 1..Min(Len(played), Len(earlier)) : played[k] = earlier[k])
  /\ [][lastOp'.op = "reset" =>
          player' = [player EXCEPT !.processedFrames = 0]]_vars

\* The two-frame clip started at frame 2 was played through, rewound by
\* reset() and played through again.
C26_Witness ==
  /\ lastOp.op = "RenderBlock"
  /\ player.processedFrames = 4
  /\ earlier = <<0, 0, 4, 8>>
  /\ played = <<0, 0, 4, 8>>

(* ---------------- claims about the rendered samples ------------------- *)

\* C23: in any render, the scratch output of a clip player is zero at every
\* frame whose position is before start_frame or at/after effective_end =
\* min(max(start_frame, end_frame), start_frame + clip.frame_count), for every
\* graph the node may be wired into.
C23_ClipSilentOutsideRange ==
  (lastOp.op = "render" /\ lastOp.ok /\ lastOp.frames = 1) =>
    \A id \in DOMAIN nodes :
      (id \in Range(lastOp.processed) /\ IsClipPlayer(nodeState[id])) =>
        LET node == nodeState[id]
            position == node.processedFrames - lastOp.frames
            later == IF node.endFrame > node.startFrame
                     THEN node.endFrame ELSE node.startFrame
            limit == node.startFrame + Len(node.clipBuffer)
            end == IF later < limit THEN later ELSE limit
        IN (position < node.startFrame \/ position >= end) =>
             nodeBuffers[id].sample = 0

\* C27 as stated: with a single GainNode of gain 1.0 connected to the output
\* bus, render on an output view pre-filled with input samples leaves the
\* output samples unchanged.
C27_GainLeavesOutput ==
  (/\ lastOp.op = "render"
   /\ lastOp.ok
   /\ lastOp.frames > 0
   /\ \E id \in DOMAIN nodes :
        /\ DOMAIN nodes = {id}
        /\ nodeState[id] = GainNode
        /\ connections = <<[source |-> id, destination |-> kOutputBusId]>>) =>
    lastOp.out = lastOp.input

\* C27: with a single GainNode of gain 1.0 connected to the output bus,
\* render on an output view pre-filled with input samples leaves every output
\* sample zero, whatever the view held.
C27_GainOutputZero ==
  (/\ lastOp.op = "render"
   /\ lastOp.ok
   /\ lastOp.frames > 0
   /\ \E id \in DOMAIN nodes :
        /\ DOMAIN nodes = {id}
        /\ nodeState[id] = GainNode
        /\ connections = <<[source |-> id, destination |-> kOutputBusId]>>) =>
    lastOp.out = 0

\* A view holding non-zero samples was rendered through a graph of one
\* GainNode of gain 1 connected to the output bus.
C27_Witness ==
  /\ lastOp.op = "render"
  /\ lastOp.ok
  /\ lastOp.frames > 0
  /\ lastOp.input # 0
  /\ DOMAIN nodes = {"a"}
  /\ nodeState["a"] = GainNode
  /\ connections = <<[source |-> "a", destination |-> kOutputBusId]>>
  /\ lastOp.processed = <<"a">>

\* The sources connected to node id, one entry per connection.
SourcesOf(id) ==
  LET Feeds(conn) == conn.destination = id /\ conn.source \in DOMAIN nodes
      feeding == SelectSeq(connections, Feeds)
  IN [i \in DOMAIN feeding |-> feeding[i].source]

RECURSIVE StatedOutput(_)
RECURSIVE StatedSum(_)
\* The one-frame output of node id as the claim states it: its process
\* applied to the sum of the outputs of its inbound sources.
StatedOutput(id) ==
  LET inbound == StatedSum(SourcesOf(id))
  IN IF IsClipPlayer(nodeState[id])
     THEN ClipFrame(nodeState[id], 0, inbound)
     ELSE inbound * nodeState[id].gain
StatedSum(sources) ==
  IF sources = <<>> THEN 0
  ELSE StatedOutput(Head(sources)) + StatedSum(Tail(sources))

\* C30: for an acyclic graph, after render the output view equals, sample by
\* sample, the sum over output_sources of each source's node output, where a node's output is its process applied to the
\* sum of the same-pass outputs of its inbound sources (a source feeding
\* several destinations contributes fully to each); the result does not
\* depend on what the output buffer or the scratch buffers held before.
C30_OutputIsSumOfSources ==
  [][(/\ lastOp'.op = "render"
      /\ lastOp'.ok
      /\ lastOp'.frames = 1
      /\ lastOp'.channels > 0
      /\ Acyclic) =>
       /\ lastOp'.out = StatedSum(outputSources)
       /\ \A id \in DOMAIN nodes : nodeBuffers'[id].sample = StatedOutput(id)]_vars

\* A playing clip fed both the output bus and a GainNode of gain 2, over
\* scratch buffers and an output view that held other samples before.
C30_Witness ==
  /\ lastOp.op = "render"
  /\ lastOp.ok
  /\ lastOp.input # 0
  /\ DOMAIN nodes = {"a", "b"}
  /\ IsClipPlayer(nodeState["a"])
  /\ ~IsClipPlayer(nodeState["b"])
  /\ Range(connections) = {[source |-> "a", destination |-> "b"],
                           [source |-> "a", destination |-> kOutputBusId]}
  /\ lastOp.out = 4
  /\ nodeBuffers["a"].sample = 4
  /\ nodeBuffers["b"].sample = 8

(* ----------------------- claims about two threads --------------------- *)

\* C28: with one producer thread in schedule and one consumer thread in
\* dispatchDueEvents, interleaved at the granularity of each index load, slot
\* write and index store, the consumer never reads a slot whose write is not
\* yet published, the producer never overwrites a slot whose callback has not
\* finished, and no accepted event is lost or invoked twice.
C28_LockFreeQueue ==
  LET using   == consumer.pc \in {"peek", "call", "storeRead"}
      writing == producer.pc \in {"assign", "assigning"}
  IN /\ using =>
          /\ consumer.read = readIndex
          /\ readIndex # writeIndex
          /\ events[consumer.read] # Torn
     /\ (using /\ writing) => producer.write # consumer.read
     /\ writing => \A i \in 1..Len(Pending) :
                      (readIndex + i - 1) % capacity # producer.write
     /\ Len(accepted) = consumed + Len(Pending)
     /\ \A i \in 1..Len(Pending) : Pending[i].callback.id = consumed + i
     /\ Len(invoked) = IF consumer.pc = "storeRead" THEN consumed + 1 ELSE consumed
     /\ \A i \in 1..Len(invoked) : invoked[i].id = i

\* The producer is assigning a slot of the wrapped-around ring while the
\* consumer is inside the callback of another slot.
C28_Witness ==
  /\ producer.pc = "assigning"
  /\ consumer.pc = "storeRead"
  /\ producer.write < consumer.read
  /\ Len(accepted) >= MaxEvents
  /\ Len(invoked) >= 1

\* C29: when PluginHostBridge::Render runs concurrently with
\* SetRenderCallback or ClearRenderCallback, any callback it invokes receives
\* the user data that was registered together with that same callback: never
\* null and never another registration's user data.
C29_SlotIsAtomicPair ==
  (lastOp.op = "Render" /\ lastOp.requests # <<>>) =>
    <<lastOp.requests[1].callback, lastOp.requests[1].userData>> \in SlotRegistrations

(* ------------------ claims about rendering a graph -------------------- *)

\* The gain the automated node is processed with in a render that starts at
\* the current frame time, when exactly the waiting events numbered in due
\* take effect: the value of the last of them, or the gain it has.
GainInEffect(due) ==
  IF due = {} THEN nodeState[AutoTarget].gain
  ELSE Pending[CHOOSE i \in due : \A j \in due : j <= i].callback.value

\* A render of the clip through the automated gain: the samples mixed to the
\* output are the clip's samples times the gain in effect.
RendersWithGain(due) ==
  (/\ lastOp'.op = "render" /\ lastOp'.ok /\ lastOp'.frames > 0
   /\ DOMAIN nodes = {AutoSource, AutoTarget}
   /\ connections # <<>>)
  => lastOp'.out = 4 * GainInEffect(due)

\* C31 as claimed: every automation whose trigger frame is at most the
\* frame time at which a render starts is in effect for the whole block, and
\* one whose trigger frame is greater, also inside the block, has no effect
\* on it.
C31_DueAutomationInEffect ==
  [][RendersWithGain({i \in DOMAIN Pending : Pending[i].frame <= frameTime})]_vars

\* C31 as amended: the automations in effect for the block are those whose
\* trigger frame, and the trigger frame of every automation accepted before
\* them that is still waiting, is at most the frame time at which the render
\* starts; every other automation has no effect on the block.
C31_DispatchedAutomationInEffect ==
  [][RendersWithGain({i \in DOMAIN Pending :
                       \A j \in 1..i : Pending[j].frame <= frameTime})]_vars

\* A two-frame render from frame 1 came out with the gain an automation of
\* frame 0 set, while the automation of the block's second frame waits.
C31_Witness ==
  /\ lastOp.op = "render" /\ lastOp.frames = 2 /\ frameTime = 3
  /\ lastOp.out = 4 * 3
  /\ Len(Pending) = 1 /\ Pending[1].frame = MaxFrame /\ Pending[1].callback.value = 2
  /\ Len(invoked) = 1 /\ invoked[1].frame = 0

\* The sources of the stored connections into node d, in the order the
\* connections are stored.
StoredSourcesInto(d) ==
  LET Into(conn) == conn.destination = d
      into == SelectSeq(connections, Into)
  IN [i \in DOMAIN into |-> into[i].source]

\* C32: after every addNode, removeNode, connect and disconnect the topology
\* cache is the one of the current nodes and connections: for each present
\* node d, inboundEdges[d] is exactly the sequence of the sources of the
\* stored connections into d, in connection order (no entry when there is
\* none), and no entry of the cache names a removed node.
C32_TopologyCacheCurrent ==
  /\ DOMAIN inboundEdges \subseteq DOMAIN nodes
  /\ \A d \in DOMAIN nodes :
       IF StoredSourcesInto(d) = <<>>
       THEN d \notin DOMAIN inboundEdges
       ELSE d \in DOMAIN inboundEdges /\ inboundEdges[d] = StoredSourcesInto(d)
  /\ \A d \in DOMAIN inboundEdges : Range(inboundEdges[d]) \subseteq DOMAIN nodes
  /\ Range(renderOrder) = DOMAIN nodes
  /\ Range(outputSources) \subseteq DOMAIN nodes

\* Removing node b erased its connection and left node c with the inbound
\* source a alone.
C32_Witness ==
  /\ lastOp.op = "removeNode" /\ lastOp.n = 1
  /\ DOMAIN nodes = {"a", "c"}
  /\ inboundEdges = ("c" :> <<"a">>)

\* Node v lies on a cycle of node-to-node connections (a self-connection is
\* one) or downstream of such a cycle.
OnOrAfterCycle(v) ==
  LET n == Cardinality(DOMAIN nodes)
  IN \E u \in DOMAIN nodes :
       PathUpTo(u, u, n) /\ (u = v \/ PathUpTo(u, v, n))

\* C33: for every reachable graph, with cycles and self-connections,
\* renderOrder contains every present node exactly once; the nodes on a
\* cycle or downstream of one come after all the others, and the others are
\* in topological order.
C33_CyclesAtTail ==
  /\ Len(renderOrder) = Cardinality(DOMAIN nodes)
  /\ Range(renderOrder) = DOMAIN nodes
  /\ \A u, v \in DOMAIN nodes :
       (~OnOrAfterCycle(u) /\ OnOrAfterCycle(v))
         => Position(renderOrder, u) < Position(renderOrder, v)
  /\ \A u, v \in DOMAIN nodes :
       (~OnOrAfterCycle(u) /\ ~OnOrAfterCycle(v) /\ Edge(u, v))
         => Position(renderOrder, u) < Position(renderOrder, v)

\* connect(v, v) was accepted: a node outside the cycle is ordered first, and
\* the self-connected node and the node it feeds are at the tail.
C33_Witness ==
  /\ lastOp.op = "connect" /\ lastOp.ok
  /\ Len(renderOrder) = 3
  /\ ~OnOrAfterCycle(renderOrder[1])
  /\ Edge(renderOrder[2], renderOrder[2]) \/ Edge(renderOrder[3], renderOrder[3])
  /\ Edge(renderOrder[2], renderOrder[3]) \/ Edge(renderOrder[3], renderOrder[2])

RECURSIVE StatedInbound(_, _, _, _)
\* The sum node d receives in a render, as the claim states it: a source
\* processed earlier in renderOrder contributes its output of this render
\* (the scratch contents in now), a source processed later the contents its
\* scratch buffer held when the render began (in before).
StatedInbound(sources, d, before, now) ==
  IF sources = <<>> THEN 0
  ELSE LET source == Head(sources)
           contribution ==
             IF Position(renderOrder, source) < Position(renderOrder, d)
             THEN now[source].sample
             ELSE IF Position(renderOrder, source) > Position(renderOrder, d)
             THEN before[source].sample
             ELSE 0
       IN contribution + StatedInbound(Tail(sources), d, before, now)

\* C34: in a render every node is processed on the sum of its inbound
\* sources' scratch buffers, where a source that comes later in renderOrder
\* (which happens only on a cycle) contributes what the previous render left
\* in its scratch buffer, never its output of the current block; the scratch
\* buffer of a node is zero when the node is added, and no call but render
\* writes to it.
C34_DelayedFeedback ==
  [][/\ (lastOp'.op = "render" /\ lastOp'.ok /\ lastOp'.frames > 0) =>
          \A d \in DOMAIN nodes :
            LET inbound == StatedInbound(StoredSourcesInto(d), d,
                                         nodeBuffers, nodeBuffers')
            IN nodeBuffers'[d].sample =
                 IF IsClipPlayer(nodeState[d])
                 THEN ClipFrame(nodeState[d], 0, inbound)
                 ELSE inbound * nodeState[d].gain
     /\ lastOp'.op # "render" =>
          /\ \A id \in DOMAIN nodes' \ DOMAIN nodes : nodeBuffers'[id].sample = 0
          /\ \A id \in DOMAIN nodes' \cap DOMAIN nodes :
               nodeBuffers'[id] = nodeBuffers[id]]_vars

\* On the cycle a -> b -> a, with b processed first, the clip a sounded 4 in
\* the previous render and the gain b, doubling, put out 8 in this one.
C34_Witness ==
  /\ lastOp.op = "render"
  /\ lastOp.processed = <<"b", "a">>
  /\ Edge("a", "b") /\ Edge("b", "a")
  /\ ~IsClipPlayer(nodeState["b"]) /\ IsClipPlayer(nodeState["a"])
  /\ nodeState["a"].processedFrames = 3
  /\ nodeBuffers["b"].sample = 8

\* C35: at the start of every render the processedFrames of a ClipPlayerNode
\* the graph owns equals the frame time of the graph's clock, so that the
\* clip starts sounding in the block that contains render frame startFrame,
\* also for a node added after rendering has begun.
C35_ClipFollowsClock ==
  \A id \in DOMAIN nodes :
    IsClipPlayer(nodeState[id]) => nodeState[id].processedFrames = frameTime

\* The playing region of the clip player as the claim states it: its length
\* and the first frame of its fade-out window.
StatedLength == IF StatedEnd > player.startFrame THEN StatedEnd - player.startFrame ELSE 0
StatedFadeOutStart ==
  IF player.fadeOutFrames >= StatedLength THEN player.startFrame
  ELSE StatedEnd - player.fadeOutFrames
StatedFadeOutSpan ==
  LET least == IF player.fadeOutFrames < StatedLength
               THEN player.fadeOutFrames ELSE StatedLength
  IN IF least < 1 THEN 1 ELSE least

\* C36: for each frame a inside the playing region the applied amplitude is
\* gain, times (a - start_frame + 1) / fade_in_frames when fade_in_frames > 0
\* and a < start_frame + fade_in_frames, times (effective_end - a) /
\* max(1, min(fade_out_frames, playback_length)) when fade_out_frames > 0
\* and a >= fade_out_start; both factors apply inside both windows.
C36_FadeFactors ==
  player.clipBuffer # <<>> =>
    \A k \in 1..Len(played) :
      LET a == origin + k - 1
          inFade  == player.fadeInFrames > 0
                       /\ a < player.startFrame + player.fadeInFrames
          outFade == player.fadeOutFrames > 0 /\ a >= StatedFadeOutStart
          inUp    == IF inFade THEN a - player.startFrame + 1 ELSE 1
          inDown  == IF inFade THEN player.fadeInFrames ELSE 1
          outUp   == IF outFade THEN StatedEnd - a ELSE 1
          outDown == IF outFade THEN StatedFadeOutSpan ELSE 1
      IN (player.startFrame <= a /\ a < StatedEnd) =>
           played[k] * inDown * outDown =
             player.clipBuffer[a - player.startFrame + 1] * player.gain * inUp * outUp

\* The two-frame clip was played with gain 2 and both fades of 2 frames, so
\* that each frame lies in both windows: frame 0 at 1/2 * 2/2 and frame 1 at
\* 2/2 * 1/2 of the gain.
C36_Witness ==
  /\ origin = 0
  /\ player.clipBuffer = <<4, 8>>
  /\ player.startFrame = 0
  /\ StatedEnd = 2
  /\ player.fadeInFrames = 2
  /\ player.fadeOutFrames = 2
  /\ player.gain = 2
  /\ played = <<4, 8>>

(* ----------------- claims about the plugin node's log ----------------- *)

\* C37: over any sequence of process calls the host-unavailable error is
\* logged at most once per run of calls that find the host unavailable, a
\* run ending only when a callback is reached or on prepare, reset or
\* setHostInstanceId, and the render-failure error at most once per run of
\* calls whose callback reports no success, a run ending only when a
\* callback succeeds or on prepare or reset.
C37_LoggedOncePerRun ==
  /\ runLogs.unavailable <= 1
  /\ runLogs.failure <= 1

\* A process call found the host unavailable and logged nothing, the error
\* having been logged earlier in the run; the run of failed renders before
\* it has logged its line too.
C37_Witness ==
  /\ lastOp.op = "process" /\ lastOp.frames > 0 /\ lastOp.channels > 0
  /\ ~bypassed
  /\ hostInstanceId = "" \/ gRenderCallback = nullptr
  /\ lastOp.logged = <<>>
  /\ runLogs = [unavailable |-> 1, failure |-> 1]

\* The decimal strings of the magnitudes of the values set.
Decimal == (0 :> "0") @@ (1 :> "1") @@ (42 :> "42")
Magnitude(v) == IF v < 0 THEN -v ELSE v

\* A step is setParameter("hostinstanceid", v), in any letter case.
SetsHostInstanceId ==
  lastOp'.op = "setParameter" /\ lastOp'.name \in {"hostInstanceId", "hostinstanceid"}

C39_OutputIdReserved == kOutputBusId \notin DOMAIN nodes

(* ------------------- claims about the platform bridge ----------------- *)

\* C40: in the platform bridge the graph render never overlaps a
\* control-plane mutation, and render never waits for the lock: a render
\* call that finds the mutex held takes no lock, fills the output with zeros,
\* increments the xrun counter by one and returns, without touching the
\* graph or its clock.
C40_RenderNeverOverlaps ==
  /\ [](~(bridge.control = "in" /\ bridge.audio = "in"))
  /\ []((bridge.audio = "idle" /\ bridge.xruns < MaxXruns)
          => ENABLED (\E input \in InputSamples : RenderTryLock(input)))
  /\ [][(bridge.audio = "idle" /\ bridge.held /\ bridge'.audio # "idle") =>
          /\ bridge'.audio = "xrun"
          /\ bridge'.out = 0
          /\ bridge'.held = bridge.held
          /\ UNCHANGED <<clockVars, schedVars, graphVars>>]_vars
  /\ [][bridge.audio = "xrun" =>
          \/ bridge'.audio = "xrun" /\ bridge'.xruns \in {bridge.xruns, 0}
          \/ /\ bridge'.audio = "idle"
             /\ bridge'.xruns = bridge.xruns + 1
             /\ UNCHANGED <<clockVars, schedVars, graphVars>>]_vars

\* A render found the mutex held by a mutation that has changed the graph,
\* and is about to count its xrun.
C40_Witness ==
  /\ bridge.audio = "xrun"
  /\ bridge.control = "in"
  /\ lastOp.op = "addNode" /\ lastOp.ok
  /\ bridge.out = 0
  /\ bridge.xruns = 1

====
